---- MODULE Spec2Model ----
(***************************************************************************)
(* Gift AI backend: the /recommend serving pipeline and its rate gate.     *)
(*                                                                         *)
(* State: the token_usage table (app/rate_limiter.py), the module-level    *)
(* Supabase client (app/database.py), the wall clock, and one record per   *)
(* in-flight /recommend request holding its position in                    *)
(* check_rate_limit_dependency (app/dependencies.py) and recommend         *)
(* (app/main.py) together with the locals those functions keep.            *)
(*                                                                         *)
(* Time is counted in ticks, TicksPerSecond ticks to the second, so that   *)
(* int(timedelta.total_seconds()) is a real truncation.  Timestamps are    *)
(* written with datetime.utcnow().isoformat() (no offset) and are read     *)
(* back as written, so a row's timestamp is the tick of its insert.        *)
(***************************************************************************)
EXTENDS Integers, Sequences, FiniteSets, TLC

\* ------------------------------------------------------------------ bounds
MaxTime == 4
MaxRecords == 2

\* ------------------------------------------------- configuration constants
\* HOURLY_TOKEN_LIMIT and RATE_LIMIT_WINDOW_SECONDS are read from the
\* environment (rate_limiter.py:16-17); the model runs a scaled deployment.
HOURLY_TOKEN_LIMIT == 2
RATE_LIMIT_WINDOW_SECONDS == 1
TicksPerSecond == 2

Window == RATE_LIMIT_WINDOW_SECONDS * TicksPerSecond

\* ------------------------------------------------------------- input sets
IPs == {"ip_a", "ip_b"}
Units == {1, 2}

VARIABLES
    now,        \* datetime.utcnow(), in ticks
    supabase,   \* database.supabase: "client" or "None" (create_client failed)
    token_usage,\* rows of TABLE_TOKEN_USAGE, in insertion order
    req,        \* per request: position and locals
    shadow,     \* second run's token_usage table (isolation check)
    iso,        \* the two runs' gate state for the observed client
    call,       \* a function of the pipeline applied on its own: input, result
    tables      \* rows of user_preferences and inferred_preferences

vars == <<now, supabase, token_usage, req, shadow, iso, call, tables>>

\* ------------------------------------------------------------ arithmetic
RECURSIVE SumTokens(_)
\* sum(row["tokens_used"] for row in result.data)
SumTokens(rows) ==
    IF rows = <<>> THEN 0
    ELSE Head(rows).tokens_used + SumTokens(Tail(rows))

\* int(x) of a duration of `ticks` ticks expressed in seconds: truncation
\* toward zero.
IntSeconds(ticks) ==
    IF ticks >= 0 THEN ticks \div TicksPerSecond
    ELSE -((-ticks) \div TicksPerSecond)

Max(a, b) == IF a >= b THEN a ELSE b

\* ------------------------------------------------------- app/rate_limiter
\* The window query without .eq("ip_address", ip): every client's rows.
SelectWindow_any_client(table, ip_address, cutoff) ==
    SelectSeq(table, LAMBDA row: row.timestamp >= cutoff)

\* .eq("ip_address", ip).gte("timestamp", cutoff) on the table.
SelectWindow(table, ip_address, cutoff) ==
    SelectSeq(table, LAMBDA row:
        row.ip_address = ip_address /\ row.timestamp >= cutoff)

\* The sum with .gt instead of .gte, losing the row stamped exactly now - W.
get_hourly_token_usage_gt(table, ip_address, utcnow, fault) ==
    LET data == SelectWindow(table, ip_address, utcnow - Window + 1)
    IN  IF fault THEN 0
        ELSE IF data = <<>> THEN 0
        ELSE SumTokens(data)

\* get_hourly_token_usage: `fault` is execute() raising; the except
\* branch returns 0.
get_hourly_token_usage(table, ip_address, utcnow, fault) ==
    LET one_hour_ago == utcnow - Window
        data == SelectWindow(table, ip_address, one_hour_ago)
    IN  IF fault THEN 0
        ELSE IF data = <<>> THEN 0
        ELSE SumTokens(data)

\* The .limit(1) row taken from the newest end (desc=True).
OldestRecord_newest(table, ip_address, cutoff) ==
    LET data == SelectWindow(table, ip_address, cutoff)
        last == SelectSeq(data, LAMBDA row:
                    \A i \in 1..Len(data) : row.timestamp >= data[i].timestamp)
    IN  IF data = <<>> THEN <<>> ELSE <<Head(last)>>

\* .order("timestamp", desc=False).limit(1): the rows holding the smallest
\* timestamp of the selection, cut to one.
OldestRecord(table, ip_address, cutoff) ==
    LET data == SelectWindow(table, ip_address, cutoff)
        first == SelectSeq(data, LAMBDA row:
                    \A i \in 1..Len(data) : row.timestamp <= data[i].timestamp)
    IN  IF data = <<>> THEN <<>> ELSE <<Head(first)>>

\* check_rate_limit whose except branch refuses the request instead of admitting it.
check_rate_limit_fail_closed(tokens_used, table, ip_address, utcnow, fault) ==
    LET oldest_record == OldestRecord(table, ip_address, utcnow - Window)
        reset_time == IF oldest_record # <<>>
                      THEN oldest_record[1].timestamp + Window
                      ELSE utcnow + Window
    IN  IF fault
        THEN [is_allowed |-> FALSE, tokens_used |-> 0,
              reset_time |-> utcnow + Window]
        ELSE [is_allowed |-> tokens_used < HOURLY_TOKEN_LIMIT,
              tokens_used |-> tokens_used,
              reset_time |-> reset_time]

\* check_rate_limit after its call of get_hourly_token_usage: the second
\* read, the reset time and the decision.  `fault` is the second execute()
\* raising, which the except branch turns into (True, 0, now + W).
check_rate_limit(tokens_used, table, ip_address, utcnow, fault) ==
    LET one_hour_ago == utcnow - Window
        oldest_record == OldestRecord(table, ip_address, one_hour_ago)
        reset_time == IF oldest_record # <<>>
                      THEN oldest_record[1].timestamp + Window
                      ELSE utcnow + Window
    IN  IF fault
        THEN [is_allowed |-> TRUE, tokens_used |-> 0,
              reset_time |-> utcnow + Window]
        ELSE [is_allowed |-> tokens_used < HOURLY_TOKEN_LIMIT,
              tokens_used |-> tokens_used,
              reset_time |-> reset_time]

\* record_token_usage: insert one row stamped utcnow.  The tokens_used
\* column holds integers (test_supabase.py sums it), so a non-integer
\* value makes execute() raise like a store fault does; either way the
\* except branch returns False and no row is written.  outcome "ok" is
\* the function returning True.
record_token_usage(table, ip_address, tokens, utcnow, fault) ==
    IF fault THEN [outcome |-> "store_fault", table |-> table]
    ELSE IF tokens.type # "int"
    THEN [outcome |-> "value_refused", table |-> table]
    ELSE [outcome |-> "ok",
          table |-> Append(table, [ip_address |-> ip_address,
                                   tokens_used |-> tokens.value,
                                   timestamp |-> utcnow])]

PyInt(n) == [type |-> "int", value |-> n]
PyStr(s) == [type |-> "str", text |-> s]

\* ----------------------------------------------------------- app/database
\* get_supabase: raises RuntimeError when the module-level client is None.
get_supabase(client) ==
    IF client = "None" THEN [raised |-> TRUE, value |-> "None"]
    ELSE [raised |-> FALSE, value |-> client]

\* Depends(get_db): FastAPI runs the generator to its yield; the except
\* branch logs and re-raises.
Depends_get_db(client) == get_supabase(client)

\* get_db(): a plain call of the generator function runs none of its body
\* and returns a generator object, whatever the client is.
get_db == "generator"

\* ---------------------------------------------------------- app/retrieval
\* retrieve_gifts steps 1-2 (the try block): supabase = get_db() is a
\* generator object, supabase.table('gifts') raises AttributeError, and
\* the except branch returns [].  rows is what the catalog would answer.
FetchGifts(rows) ==
    IF get_db # "client"
    THEN [raised |-> TRUE, returned |-> TRUE, gifts |-> <<>>]
    ELSE IF rows = <<>>
    THEN [raised |-> FALSE, returned |-> TRUE, gifts |-> <<>>]
    ELSE [raised |-> FALSE, returned |-> FALSE, gifts |-> rows]

RECURSIVE ScoreStages(_)
\* Step 4's loop: per gift compute_score and semantic score, then
\* build_ranking_reasons inside scored.append.
ScoreStages(gifts) ==
    IF gifts = <<>> THEN <<>>
    ELSE <<"SCORE", "BUILD_REASONS">> \o ScoreStages(Tail(gifts))

\* The pipeline states retrieve_gifts enters, in order.
RetrieveStages(rows) ==
    IF FetchGifts(rows).returned THEN <<"RETRIEVE_CANDIDATES">>
    ELSE <<"RETRIEVE_CANDIDATES">> \o ScoreStages(rows) \o <<"NORMALIZE">>

\* retrieve_gifts without its except branch: the failure leaves the
\* function.
retrieve_gifts_unguarded ==
    LET fetch == FetchGifts(<<>>)
    IN  [raised |-> fetch.raised, failed |-> fetch.raised,
         gifts |-> fetch.gifts, stages |-> RetrieveStages(<<>>)]

\* retrieve_gifts as recommend sees it: the try block always ends in its
\* except branch (get_db() is no client), which logs the error and
\* returns [], so lines 189-229 are not reached.  failed: an exception
\* was raised inside; raised: it left the function.
retrieve_gifts ==
    LET fetch == FetchGifts(<<>>)
    IN  [raised |-> FALSE, failed |-> fetch.raised,
         gifts |-> fetch.gifts, stages |-> RetrieveStages(<<>>)]

\* ---------------------------------------------------------------- app/llm
\* generate_gift_response on the reply of client.chat.completions.create:
\* the call itself, parsed.get on a JSON value that is no object, and
\* gift["name"] on an entry without a name are outside any try; content
\* that is not JSON is replaced by the fallback dict.  The function returns
\* a dict built with the keys "intro" and "gifts", in that order.
\* reply.gifts is the "gifts" list of the parsed JSON object; each entry is
\* rebuilt from the reply, its ranking_reasons alone looked up by name in
\* the gifts handed in (lines 116-135).  Confidences are in hundredths.
NormalizeGift(gifts, entry) ==
    LET same == {i \in 1..Len(gifts) : gifts[i].name = entry.name}
        source == IF same = {} THEN <<>>
                  ELSE <<gifts[CHOOSE i \in same : \A j \in same : i <= j]>>
    IN  [name |-> entry.name,
         confidence |-> IF entry.has_confidence THEN entry.confidence ELSE 50,
         ranking_reasons |->
             IF source # <<>> THEN source[1].ranking_reasons
             ELSE <<"Good overall match for your request">>]

generate_gift_response(gifts, reply) ==
    IF reply.kind \in {"api_error", "json_not_object", "json_gift_without_name"}
    THEN [raised |-> TRUE, keys |-> <<>>, value |-> <<>>]
    ELSE [raised |-> FALSE, keys |-> <<"intro", "gifts">>,
          value |-> <<[intro |-> "intro text",
                       gifts |-> IF reply.kind = "json_object"
                                 THEN [i \in 1..Len(reply.gifts) |->
                                         NormalizeGift(gifts, reply.gifts[i])]
                                 ELSE <<>>]>>]

LLMReplyKinds ==
    {"api_error", "json_not_object", "json_gift_without_name",
     "json_object", "not_json"}

\* llm_response, tokens_used = generate_gift_response(...): unpacking a
\* dict iterates its keys.
UnpackPair(result) == [llm_response |-> result.keys[1],
                       tokens_used |-> PyStr(result.keys[2])]

\* ----------------------------------------------------------- app/main
\* Lines 197-220: explicit = get_preferences(user_id) if user_id else None,
\* `or` default, get_inferred, then list concatenation.  get_preferences
\* answers None (no row, or its read raised), a row with both lists, or a
\* row whose interests or vibe column is null; None + list raises
\* TypeError.
PrefReads == {"None", "lists", "null_interests", "null_vibe"}

MergeRaises(user_id, explicit) ==
    user_id # "None" /\ explicit \in {"null_interests", "null_vibe"}

UserIds == {"None", "u1"}

\* ------------------------------------------------------ app/dependencies
\* The dependency without its raise: a denied request is handed on.
check_rate_limit_dependency_no_raise(decision, ip_address, utcnow) ==
    [raised |-> FALSE, detail |-> <<>>]

\* The dependency without max(0, ...) around the seconds left.
check_rate_limit_dependency_no_max(decision, ip_address, utcnow) ==
    IF ~decision.is_allowed
    THEN [raised |-> TRUE,
          detail |-> <<[error |-> "Rate limit exceeded",
                        tokens_used |-> decision.tokens_used,
                        limit |-> HOURLY_TOKEN_LIMIT,
                        reset_time |-> decision.reset_time,
                        retry_after_seconds |->
                            IntSeconds(decision.reset_time - utcnow)]>>]
    ELSE [raised |-> FALSE, detail |-> <<>>]

\* check_rate_limit_dependency lines 36-54 on check_rate_limit's result.
check_rate_limit_dependency(decision, ip_address, utcnow) ==
    IF ~decision.is_allowed
    THEN [raised |-> TRUE,
          detail |-> <<[error |-> "Rate limit exceeded",
                        tokens_used |-> decision.tokens_used,
                        limit |-> HOURLY_TOKEN_LIMIT,
                        reset_time |-> decision.reset_time,
                        retry_after_seconds |->
                            Max(0, IntSeconds(decision.reset_time - utcnow))]>>]
    ELSE [raised |-> FALSE, detail |-> <<>>]

\* ------------------------------------------------------------ the requests
Terminal == {"DONE", "REJECTED", "FAULT"}

Idle == [pc |-> "idle", ip_address |-> "None", tokens_used |-> 0,
         is_allowed |-> TRUE, reset_time |-> 0, gate_fault |-> FALSE,
         detail |-> <<>>, trace |-> <<>>, fetch_error |-> FALSE,
         gifts |-> <<>>, llm_response |-> "None", cost |-> 0,
         record |-> "none", appended |-> <<>>, response |-> "None",
         fault_at |-> "none", peers |-> {}]

\* Admitted by the gate and not yet at the end of record_token_usage.
InPipeline == {"PREFERENCE_MERGE", "RETRIEVE_CANDIDATES", "EXPLAIN",
               "RECORD_USAGE"}

\* One request at a time is in flight in Spec; the slot is taken again by
\* the next request once the previous one has ended.
SerialSlots == {1}

Init ==
    /\ now = 0
    /\ supabase \in {"client", "None"}
    /\ token_usage = <<>>
    /\ req = [r \in SerialSlots |-> Idle]
    /\ shadow = <<>>
    /\ iso = <<>>
    /\ call = <<>>
    /\ tables = <<>>

Tick ==
    /\ now < MaxTime
    /\ now' = now + 1
    /\ UNCHANGED <<supabase, token_usage, req, shadow, iso, call, tables>>

\* A /recommend request arrives; FastAPI resolves Depends(get_db) before
\* anything else, and an exception there ends the request with a 500.
\* (The startup event's init_db raises on a None client too; requests meet
\* a None client where the startup event is not run, as under
\* TestClient(app) used outside a with block.)
Arrive(r, ip) ==
    /\ req[r].pc \in {"idle"} \cup Terminal
    /\ LET db == Depends_get_db(supabase) IN
       req' = [req EXCEPT ![r] =
                IF db.raised
                THEN [Idle EXCEPT !.pc = "FAULT", !.ip_address = ip,
                                  !.fault_at = "get_db"]
                ELSE [Idle EXCEPT !.pc = "GATE_CHECK", !.ip_address = ip,
                                  !.trace = <<"GATE_CHECK">>]]
    /\ UNCHANGED <<now, supabase, token_usage, shadow, iso, call, tables>>

\* check_rate_limit line 134: get_hourly_token_usage.
GateSum(r) ==
    /\ req[r].pc = "GATE_CHECK"
    /\ \E fault \in BOOLEAN :
        req' = [req EXCEPT ![r] =
                 [@ EXCEPT !.pc = "GATE_OLDEST",
                           !.tokens_used = get_hourly_token_usage(
                               token_usage, req[r].ip_address, now, fault),
                           !.gate_fault = fault]]
    /\ UNCHANGED <<now, supabase, token_usage, shadow, iso, call, tables>>

\* check_rate_limit lines 136-162: the oldest-record read and the result.
GateOldest(r) ==
    /\ req[r].pc = "GATE_OLDEST"
    /\ \E fault \in BOOLEAN :
        LET d == check_rate_limit(req[r].tokens_used, token_usage,
                                  req[r].ip_address, now, fault)
        IN  req' = [req EXCEPT ![r] =
                     [@ EXCEPT !.pc = "GATE_DECIDE",
                               !.tokens_used = d.tokens_used,
                               !.is_allowed = d.is_allowed,
                               !.reset_time = d.reset_time,
                               !.gate_fault = @ \/ fault]]
    /\ UNCHANGED <<now, supabase, token_usage, shadow, iso, call, tables>>

\* check_rate_limit_dependency lines 36-54: raise 429 or hand the request
\* to recommend; the decision's locals end with the dependency.  peers is
\* history, not program state: the same client's requests that were
\* admitted and had not yet recorded when this one was admitted.
GateDecide(r) ==
    /\ req[r].pc = "GATE_DECIDE"
    /\ LET d == [is_allowed |-> req[r].is_allowed,
                 tokens_used |-> req[r].tokens_used,
                 reset_time |-> req[r].reset_time]
           out == check_rate_limit_dependency(d, req[r].ip_address, now)
       IN  req' = [req EXCEPT ![r] =
                    IF out.raised
                    THEN [@ EXCEPT !.pc = "REJECTED", !.detail = out.detail,
                                   !.trace = Append(@, "REJECTED")]
                    ELSE [@ EXCEPT !.pc = "PREFERENCE_MERGE",
                                   !.tokens_used = 0, !.reset_time = 0,
                                   !.peers = {q \in DOMAIN req \ {r} :
                                       /\ req[q].ip_address = req[r].ip_address
                                       /\ req[q].pc \in InPipeline},
                                   !.trace = Append(@, "PREFERENCE_MERGE")]]
    /\ UNCHANGED <<now, supabase, token_usage, shadow, iso, call, tables>>

\* recommend lines 197-220.
PreferenceMerge(r) ==
    /\ req[r].pc = "PREFERENCE_MERGE"
    /\ \E user_id \in UserIds, explicit \in PrefReads :
        req' = [req EXCEPT ![r] =
                 IF MergeRaises(user_id, explicit)
                 THEN [@ EXCEPT !.pc = "FAULT", !.fault_at = "merge"]
                 ELSE [@ EXCEPT !.pc = "RETRIEVE_CANDIDATES"]]
    /\ UNCHANGED <<now, supabase, token_usage, shadow, iso, call, tables>>

\* recommend lines 225-230: retrieve_gifts.
Retrieve(r) ==
    /\ req[r].pc = "RETRIEVE_CANDIDATES"
    /\ LET out == retrieve_gifts
       IN  req' = [req EXCEPT ![r] =
                    IF out.raised
                    THEN [@ EXCEPT !.pc = "FAULT",
                                   !.fault_at = "retrieve_gifts",
                                   !.fetch_error = out.failed,
                                   !.trace = @ \o out.stages]
                    ELSE [@ EXCEPT !.pc = "EXPLAIN",
                                   !.fetch_error = out.failed,
                                   !.gifts = out.gifts,
                                   !.trace = @ \o out.stages]]
    /\ UNCHANGED <<now, supabase, token_usage, shadow, iso, call, tables>>

\* recommend lines 235-239: generate_gift_response and the unpacking.
\* total_tokens is what the completion reports as its usage; the code
\* never reads it.
Explain(r) ==
    /\ req[r].pc = "EXPLAIN"
    /\ \E kind \in LLMReplyKinds, total_tokens \in Units :
        LET result == generate_gift_response(req[r].gifts,
                          [kind |-> kind, gifts |-> <<>>])
        IN  req' = [req EXCEPT ![r] =
                     IF result.raised
                     THEN [@ EXCEPT !.pc = "FAULT",
                                    !.fault_at = "generate_gift_response"]
                     ELSE [@ EXCEPT !.pc = "RECORD_USAGE",
                                    !.cost = total_tokens,
                                    !.llm_response =
                                        UnpackPair(result).llm_response]]
    /\ UNCHANGED <<now, supabase, token_usage, shadow, iso, call, tables>>

\* Lines 244-257 without either except: a failed append ends the request.
RecordStep_propagates(table, ip_address, tokens, utcnow, fault) ==
    LET out == record_token_usage(table, ip_address, tokens, utcnow, fault)
    IN  [pc |-> IF out.outcome = "ok" THEN "DONE" ELSE "FAULT",
         outcome |-> out.outcome, table |-> out.table,
         appended |-> IF out.outcome = "ok" THEN <<tokens.value>> ELSE <<>>]

\* recommend lines 244-257: record_token_usage inside try/except, then
\* return llm_response.  record_token_usage catches its own failure, and
\* recommend's except would catch one it let through.
RecordStep(table, ip_address, tokens, utcnow, fault) ==
    LET out == record_token_usage(table, ip_address, tokens, utcnow, fault)
    IN  [pc |-> "DONE", outcome |-> out.outcome, table |-> out.table,
         appended |-> IF out.outcome = "ok" THEN <<tokens.value>> ELSE <<>>]

RecordUsage(r) ==
    /\ req[r].pc = "RECORD_USAGE"
    /\ \E fault \in BOOLEAN :
        LET out == RecordStep(token_usage, req[r].ip_address,
                              PyStr("gifts"), now, fault)
        IN  /\ Len(out.table) <= MaxRecords
            /\ token_usage' = out.table
            /\ req' = [req EXCEPT ![r] =
                        [@ EXCEPT !.pc = out.pc,
                                  !.record = out.outcome,
                                  !.appended = out.appended,
                                  !.fault_at = IF out.pc = "DONE" THEN @
                                               ELSE "record_token_usage",
                                  !.response = IF out.pc = "DONE"
                                               THEN req[r].llm_response
                                               ELSE "None",
                                  !.trace = IF out.pc = "DONE"
                                            THEN Append(@, "DONE") ELSE @]]
    /\ UNCHANGED <<now, supabase, shadow, iso, call, tables>>

\* record_token_usage called with an integer count, as test_rate_limiting
\* of test_supabase.py does (lines 215-221, 235).
DirectRecord(ip, units) ==
    /\ supabase = "client"
    /\ Len(token_usage) < MaxRecords
    /\ token_usage' = record_token_usage(token_usage, ip, PyInt(units),
                                         now, FALSE).table
    /\ UNCHANGED <<now, supabase, req, shadow, iso, call, tables>>

Next ==
    \/ Tick
    \/ \E r \in DOMAIN req, ip \in IPs : Arrive(r, ip)
    \/ \E r \in DOMAIN req : GateSum(r)
    \/ \E r \in DOMAIN req : GateOldest(r)
    \/ \E r \in DOMAIN req : GateDecide(r)
    \/ \E r \in DOMAIN req : PreferenceMerge(r)
    \/ \E r \in DOMAIN req : Retrieve(r)
    \/ \E r \in DOMAIN req : Explain(r)
    \/ \E r \in DOMAIN req : RecordUsage(r)
    \/ \E ip \in IPs, units \in Units : DirectRecord(ip, units)

Spec == Init /\ [][Next]_vars

\* ------------------------------------------- two requests of one client
\* recommend is a plain def, so FastAPI runs each request's body on a
\* worker thread; nothing orders one request's steps against another's.
\* Two requests of one client, each arriving once.
RaceSlots == {1, 2}

RaceInit ==
    /\ now = 0
    /\ supabase = "client"
    /\ token_usage = <<>>
    /\ req = [r \in RaceSlots |-> Idle]
    /\ shadow = <<>>
    /\ iso = <<>>
    /\ call = <<>>
    /\ tables = <<>>

RaceArrive(r) ==
    /\ req[r].pc = "idle"
    /\ Arrive(r, "ip_a")

RaceNext ==
    \/ Tick
    \/ \E r \in DOMAIN req : RaceArrive(r)
    \/ \E r \in DOMAIN req : GateSum(r)
    \/ \E r \in DOMAIN req : GateOldest(r)
    \/ \E r \in DOMAIN req : GateDecide(r)
    \/ \E r \in DOMAIN req : PreferenceMerge(r)
    \/ \E r \in DOMAIN req : Retrieve(r)
    \/ \E r \in DOMAIN req : Explain(r)
    \/ \E r \in DOMAIN req : RecordUsage(r)
    \/ \E units \in Units : DirectRecord("ip_a", units)

RaceSpec == RaceInit /\ [][RaceNext]_vars

\* ------------------------------------------------------- two runs, one client
\* Two runs of the gate side by side: token_usage is the first run's table,
\* shadow the second's.  Both see the same clock, the same read faults and
\* the same usage of the observed client; the usage of every other client
\* is recorded in either run independently.
Observed == "ip_a"

NoDecision == [is_allowed |-> TRUE, tokens_used |-> 0, reset_time |-> 0,
               raised |-> FALSE, detail |-> <<>>]

IsoInit ==
    /\ now = 0
    /\ supabase = "client"
    /\ token_usage = <<>>
    /\ shadow = <<>>
    /\ req = <<>>
    /\ iso = [pc |-> "idle", first |-> NoDecision, second |-> NoDecision]
    /\ call = <<>>
    /\ tables = <<>>

\* record_token_usage for the observed client: the same row in both runs.
IsoRecordObserved(units) ==
    /\ Len(token_usage) < MaxRecords
    /\ Len(shadow) < MaxRecords
    /\ token_usage' = record_token_usage(token_usage, Observed,
                                         PyInt(units), now, FALSE).table
    /\ shadow' = record_token_usage(shadow, Observed,
                                    PyInt(units), now, FALSE).table
    /\ UNCHANGED <<now, supabase, req, iso, call, tables>>

\* What another client records at once: a whole budget.
OtherUnits == {HOURLY_TOKEN_LIMIT}

\* record_token_usage for another client, in one run only.
IsoRecordOther(ip, units, in_first) ==
    /\ ip # Observed
    /\ IF in_first
       THEN /\ Len(token_usage) < MaxRecords
            /\ token_usage' = record_token_usage(token_usage, ip,
                                                 PyInt(units), now, FALSE).table
            /\ UNCHANGED shadow
       ELSE /\ Len(shadow) < MaxRecords
            /\ shadow' = record_token_usage(shadow, ip,
                                            PyInt(units), now, FALSE).table
            /\ UNCHANGED token_usage
    /\ UNCHANGED <<now, supabase, req, iso, call, tables>>

\* check_rate_limit line 134 in both runs.
IsoSum ==
    /\ iso.pc = "idle"
    /\ \E fault \in BOOLEAN :
        iso' = [pc |-> "oldest",
                first |-> [NoDecision EXCEPT !.tokens_used =
                    get_hourly_token_usage(token_usage, Observed, now, fault)],
                second |-> [NoDecision EXCEPT !.tokens_used =
                    get_hourly_token_usage(shadow, Observed, now, fault)]]
    /\ UNCHANGED <<now, supabase, token_usage, req, shadow, call, tables>>

IsoGate(tokens_used, table, utcnow, fault) ==
    LET d == check_rate_limit(tokens_used, table, Observed, utcnow, fault)
    IN  [is_allowed |-> d.is_allowed, tokens_used |-> d.tokens_used,
         reset_time |-> d.reset_time, raised |-> FALSE, detail |-> <<>>]

\* check_rate_limit lines 136-162 in both runs.
IsoOldest ==
    /\ iso.pc = "oldest"
    /\ \E fault \in BOOLEAN :
        iso' = [pc |-> "decide",
                first |-> IsoGate(iso.first.tokens_used, token_usage,
                                  now, fault),
                second |-> IsoGate(iso.second.tokens_used, shadow,
                                   now, fault)]
    /\ UNCHANGED <<now, supabase, token_usage, req, shadow, call, tables>>

IsoOutcome(d, utcnow) ==
    LET out == check_rate_limit_dependency(d, Observed, utcnow)
    IN  [d EXCEPT !.raised = out.raised, !.detail = out.detail]

\* check_rate_limit_dependency lines 36-54 in both runs.
IsoDecide ==
    /\ iso.pc = "decide"
    /\ iso' = [pc |-> "idle",
               first |-> IsoOutcome(iso.first, now),
               second |-> IsoOutcome(iso.second, now)]
    /\ UNCHANGED <<now, supabase, token_usage, req, shadow, call, tables>>

IsoNext ==
    \/ Tick
    \/ \E units \in Units : IsoRecordObserved(units)
    \/ \E ip \in IPs, units \in OtherUnits, in_first \in BOOLEAN :
          IsoRecordOther(ip, units, in_first)
    \/ IsoSum
    \/ IsoOldest
    \/ IsoDecide

IsoSpec == IsoInit /\ [][IsoNext]_vars

\* ------------------------------------------- the pipeline's functions alone
\* The functions of the pipeline that compute without the stores, each
\* applied to inputs drawn from small sets; call holds the input and the
\* result of the application in progress.
MaxList == 2
MaxWeight == 2

Tags == {"art", "tech"}

\* Lists of at most n tags.
TagLists(n) == UNION {[1..k -> Tags] : k \in 0..n}

\* get_inferred's dict per category, as its items in insertion order: the
\* keys are distinct, the weights are those update_inferred writes (>= 1).
InferredDicts ==
    {<<>>}
    \cup {<<[key |-> t, weight |-> w]>> : t \in Tags, w \in 1..MaxWeight}
    \cup {items \in {<<[key |-> t, weight |-> w], [key |-> u, weight |-> v]>> :
                        t \in Tags, u \in Tags,
                        w \in 1..MaxWeight, v \in 1..MaxWeight} :
            items[1].key # items[2].key}

RECURSIVE Repeat(_, _)
\* [key for _ in range(weight)]
Repeat(key, weight) ==
    IF weight <= 0 THEN <<>> ELSE <<key>> \o Repeat(key, weight - 1)

RECURSIVE Flatten(_)
\* [key for key, weight in items for _ in range(weight)]
Flatten(items) ==
    IF items = <<>> THEN <<>>
    ELSE Repeat(items[1].key, items[1].weight) \o Flatten(Tail(items))

RECURSIVE Keys(_)
Keys(items) ==
    IF items = <<>> THEN <<>> ELSE <<items[1].key>> \o Keys(Tail(items))

\* The merge with every inferred key appended once, whatever its weight.
MergeCategory_once(explicit, inferred) == explicit \o Keys(inferred)

\* main.py lines 212-215 (interests) and 216-219 (vibe).
MergeCategory(explicit, inferred) == explicit \o Flatten(inferred)

\* main.py lines 211-220.
merged_preferences(explicit, inferred) ==
    [interests |-> MergeCategory(explicit.interests, inferred.interests),
     vibe |-> MergeCategory(explicit.vibe, inferred.vibe)]

MergeCall ==
    /\ call.fn = "none"
    /\ \E ei \in TagLists(MaxList), ev \in TagLists(1),
          ii \in InferredDicts, iv \in InferredDicts :
        LET explicit == [interests |-> ei, vibe |-> ev]
            inferred == [interests |-> ii, vibe |-> iv]
        IN  call' = [fn |-> "merge", explicit |-> explicit,
                     inferred |-> inferred,
                     merged |-> merged_preferences(explicit, inferred)]
    /\ UNCHANGED <<now, supabase, token_usage, req, shadow, iso, tables>>

PureInit ==
    /\ now = 0
    /\ supabase = "client"
    /\ token_usage = <<>>
    /\ req = <<>>
    /\ shadow = <<>>
    /\ iso = <<>>
    /\ call = [fn |-> "none"]
    /\ tables = <<>>

\* The application is over; the next one starts from nothing.
Return ==
    /\ call.fn # "none"
    /\ call' = [fn |-> "none"]
    /\ UNCHANGED <<now, supabase, token_usage, req, shadow, iso, tables>>

PureNext ==
    \/ MergeCall
    \/ Return

PureSpec == PureInit /\ [][PureNext]_vars

\* ---------------------------------------------------------- scoring alone
MaxFeedback == 2

Names == {"mug", "pen"}

\* get_feedback's list: at most MaxFeedback entries of gift_name and liked.
FeedbackEntries == [gift_name : Names, liked : BOOLEAN]

FeedbackLists == UNION {[1..k -> FeedbackEntries] : k \in 0..MaxFeedback}

\* The gift fields the lower-cased query is contained in.
QueryFields == {"name", "description", "categories", "interests", "occasions"}

QueryMatches == {{}, {"name"}, {"description", "occasions"}, QueryFields}

\* set(list)
Range(list) == {list[i] : i \in 1..Len(list)}

RECURSIVE FeedbackScore(_, _)
\* compute_score lines 52-54: +4 for a liked entry of this gift, -6 for any
\* other entry of this gift.
FeedbackScore(history, name) ==
    IF history = <<>> THEN 0
    ELSE (IF history[1].gift_name = name
          THEN (IF history[1].liked THEN 4 ELSE -6)
          ELSE 0) + FeedbackScore(Tail(history), name)

\* compute_score counting every preference entry found among the gift's
\* tags, so a repeated tag counts again.
compute_score_multiset(gift, preferences, user_id, history) ==
    LET interest_matches == {i \in 1..Len(preferences.interests) :
            preferences.interests[i] \in Range(gift.interests)}
        vibe_matches == {i \in 1..Len(preferences.vibe) :
            preferences.vibe[i] \in Range(gift.vibe)}
        feedback_score == IF user_id # "None"
                          THEN FeedbackScore(history, gift.name) ELSE 0
    IN  [total |-> Cardinality(interest_matches) * 3
                   + Cardinality(vibe_matches) * 2 + feedback_score,
         breakdown |-> [interest_match |-> Cardinality(interest_matches),
                        vibe_match |-> Cardinality(vibe_matches),
                        feedback |-> feedback_score]]

\* compute_score; history is what get_feedback(user_id) answers.
compute_score(gift, preferences, user_id, history) ==
    LET interest_matches ==
            Range(gift.interests) \cap Range(preferences.interests)
        vibe_matches == Range(gift.vibe) \cap Range(preferences.vibe)
        interest_score == Cardinality(interest_matches) * 3
        vibe_score == Cardinality(vibe_matches) * 2
        feedback_score == IF user_id # "None"
                          THEN FeedbackScore(history, gift.name) ELSE 0
    IN  [total |-> interest_score + vibe_score + feedback_score,
         breakdown |-> [interest_match |-> Cardinality(interest_matches),
                        vibe_match |-> Cardinality(vibe_matches),
                        feedback |-> feedback_score]]

\* The semantic score where a match in the name stands for the whole score.
semantic_score_from_query_match_name_alone(query_in) ==
    IF "name" \in query_in THEN 5
    ELSE (IF "description" \in query_in THEN 3 ELSE 0)
         + (IF "categories" \in query_in THEN 4 ELSE 0)
         + (IF "interests" \in query_in THEN 3 ELSE 0)
         + (IF "occasions" \in query_in THEN 2 ELSE 0)

\* semantic_score_from_query_match: 5.0, 3.0, 4.0, 3.0 and 2.0 for the
\* fields that contain the query (the floats are whole).
semantic_score_from_query_match(query_in) ==
    (IF "name" \in query_in THEN 5 ELSE 0)
    + (IF "description" \in query_in THEN 3 ELSE 0)
    + (IF "categories" \in query_in THEN 4 ELSE 0)
    + (IF "interests" \in query_in THEN 3 ELSE 0)
    + (IF "occasions" \in query_in THEN 2 ELSE 0)

\* retrieve_gifts lines 198-205: total_score.
total_score(gift, preferences, user_id, history) ==
    compute_score(gift, preferences, user_id, history).total
        + semantic_score_from_query_match(gift.query_in)

\* build_ranking_reasons with the feedback reason for any feedback at all,
\* liked or not.
build_ranking_reasons_any_feedback(gift, score_data) ==
    LET reasons ==
            (IF score_data.breakdown.interest_match > 0
             THEN <<"Matches your interests">> ELSE <<>>)
            \o (IF score_data.breakdown.vibe_match > 0
                THEN <<"Fits your preferred vibe">> ELSE <<>>)
            \o (IF score_data.breakdown.feedback # 0
                THEN <<"You liked something similar before">> ELSE <<>>)
    IN  IF reasons = <<>> THEN <<"Relevant to your search">> ELSE reasons

\* build_ranking_reasons
build_ranking_reasons(gift, score_data) ==
    LET reasons ==
            (IF score_data.breakdown.interest_match > 0
             THEN <<"Matches your interests">> ELSE <<>>)
            \o (IF score_data.breakdown.vibe_match > 0
                THEN <<"Fits your preferred vibe">> ELSE <<>>)
            \o (IF score_data.breakdown.feedback > 0
                THEN <<"You liked something similar before">> ELSE <<>>)
    IN  IF reasons = <<>> THEN <<"Relevant to your search">> ELSE reasons

ScoreCall ==
    /\ call.fn = "none"
    /\ \E gi \in TagLists(MaxList), gv \in {<<"art">>},
          qi \in QueryMatches,
          pi \in TagLists(MaxList), pv \in TagLists(1),
          user_id \in UserIds, history \in FeedbackLists :
        LET gift == [name |-> "mug", interests |-> gi, vibe |-> gv,
                     query_in |-> qi]
            preferences == [interests |-> pi, vibe |-> pv]
        IN  call' = [fn |-> "score", gift |-> gift,
                     preferences |-> preferences, user_id |-> user_id,
                     history |-> history,
                     score_data |-> compute_score(gift, preferences,
                                                  user_id, history),
                     semantic_score |->
                         semantic_score_from_query_match(qi),
                     score |-> total_score(gift, preferences,
                                           user_id, history),
                     ranking_reasons |-> build_ranking_reasons(gift,
                         compute_score(gift, preferences, user_id, history))]
    /\ UNCHANGED <<now, supabase, token_usage, req, shadow, iso, tables>>

ScoreNext ==
    \/ ScoreCall
    \/ Return

ScoreSpec == PureInit /\ [][ScoreNext]_vars

\* ------------------------------------------------------ confidences alone
MaxBatch == 3
MaxScore == 3

\* Raw scores: whole numbers, negative ones included.
ScoreValues == (0 - MaxScore)..MaxScore

ScoreLists == UNION {[1..k -> ScoreValues] : k \in 0..MaxBatch}

\* round(n / d, 0) for d > 0 and n >= 0.  Confidences are kept in
\* hundredths: 0.55 is 55.  An exact half (rounded up here) arises only for
\* a score span that is a multiple of 16, wider than any drawn here; there
\* the float nearest to 0.55 + normalized * 0.4 decides.
RoundDiv(n, d) == (2 * n + d) \div (2 * d)

\* min(scores), max(scores)
MinOf(scores) == CHOOSE x \in Range(scores) : \A y \in Range(scores) : x <= y
MaxOf(scores) == CHOOSE x \in Range(scores) : \A y \in Range(scores) : x >= y

\* compute_relative_confidences with 0.45 for the 0.4 of line 119.
compute_relative_confidences_wide(scores) ==
    IF scores = <<>> THEN <<>>
    ELSE LET min_score == MinOf(scores)
             max_score == MaxOf(scores)
         IN  IF min_score = max_score
             THEN [i \in 1..Len(scores) |-> 60]
             ELSE [i \in 1..Len(scores) |->
                     RoundDiv(55 * (max_score - min_score)
                                  + (scores[i] - min_score) * 45,
                              max_score - min_score)]

\* compute_relative_confidences with the normalisation turned round.
compute_relative_confidences_inverted(scores) ==
    IF scores = <<>> THEN <<>>
    ELSE LET min_score == MinOf(scores)
             max_score == MaxOf(scores)
         IN  IF min_score = max_score
             THEN [i \in 1..Len(scores) |-> 60]
             ELSE [i \in 1..Len(scores) |->
                     RoundDiv(55 * (max_score - min_score)
                                  + (max_score - scores[i]) * 40,
                              max_score - min_score)]

\* compute_relative_confidences, in hundredths.
compute_relative_confidences(scores) ==
    IF scores = <<>> THEN <<>>
    ELSE LET min_score == MinOf(scores)
             max_score == MaxOf(scores)
         IN  IF min_score = max_score
             THEN [i \in 1..Len(scores) |-> 60]
             ELSE [i \in 1..Len(scores) |->
                     RoundDiv(55 * (max_score - min_score)
                                  + (scores[i] - min_score) * 40,
                              max_score - min_score)]

ConfidenceCall ==
    /\ call.fn = "none"
    /\ \E scores \in ScoreLists :
        call' = [fn |-> "confidences", scores |-> scores,
                 confidences |-> compute_relative_confidences(scores)]
    /\ UNCHANGED <<now, supabase, token_usage, req, shadow, iso, tables>>

ConfidenceNext ==
    \/ ConfidenceCall
    \/ Return

ConfidenceSpec == PureInit /\ [][ConfidenceNext]_vars

\* -------------------------------------------------------- ranking alone
\* retrieve_gifts lines 196-229 applied to a batch as the catalog would
\* answer it, tags already normalised (step 3).
DefaultK == 5

GiftPool ==
    {[name |-> n, interests |-> gi, vibe |-> <<>>, query_in |-> {}] :
        n \in Names, gi \in TagLists(1)}

GiftBatches == UNION {[1..n -> GiftPool] : n \in 0..MaxBatch}

RankHistories ==
    {<<>>, <<[gift_name |-> "mug", liked |-> TRUE]>>,
     <<[gift_name |-> "pen", liked |-> FALSE]>>}

\* Step 4, lines 197-212: {**gift, "score": ..., "ranking_reasons": ...}.
ScoreGift(gift, preferences, user_id, history) ==
    [name |-> gift.name, interests |-> gift.interests, vibe |-> gift.vibe,
     query_in |-> gift.query_in,
     score |-> total_score(gift, preferences, user_id, history),
     ranking_reasons |-> build_ranking_reasons(gift,
         compute_score(gift, preferences, user_id, history))]

ScoreGifts(gifts, preferences, user_id, history) ==
    [i \in 1..Len(gifts) |->
        ScoreGift(gifts[i], preferences, user_id, history)]

\* Where x goes into a list sorted by score descending: behind every
\* element that scores at least as much.
InsertByScore(sorted, x) ==
    LET n == Cardinality({i \in 1..Len(sorted) : sorted[i].score >= x.score})
    IN  SubSeq(sorted, 1, n) \o <<x>> \o SubSeq(sorted, n + 1, Len(sorted))

\* The same, but in front of the elements that score the same.
InsertByScore_before_ties(sorted, x) ==
    LET n == Cardinality({i \in 1..Len(sorted) : sorted[i].score > x.score})
    IN  SubSeq(sorted, 1, n) \o <<x>> \o SubSeq(sorted, n + 1, Len(sorted))

RECURSIVE SortByScore_ties_reversed(_)
\* A descending sort that turns equal scores round.
SortByScore_ties_reversed(scored) ==
    IF scored = <<>> THEN <<>>
    ELSE InsertByScore_before_ties(
             SortByScore_ties_reversed(SubSeq(scored, 1, Len(scored) - 1)),
             scored[Len(scored)])

RECURSIVE SortByScore(_)
\* Step 5, line 215: scored.sort(key=score, reverse=True); list.sort is
\* stable, also with reverse=True.
SortByScore(scored) ==
    IF scored = <<>> THEN <<>>
    ELSE InsertByScore(SortByScore(SubSeq(scored, 1, Len(scored) - 1)),
                       scored[Len(scored)])

\* Steps 6-7, lines 217-223: confidences of the sorted scores, attached by
\* position.
AttachConfidence(scored) ==
    LET scores == [i \in 1..Len(scored) |-> scored[i].score]
        confidences == compute_relative_confidences(scores)
    IN  [i \in 1..Len(scored) |->
            [name |-> scored[i].name, interests |-> scored[i].interests,
             vibe |-> scored[i].vibe, query_in |-> scored[i].query_in,
             score |-> scored[i].score,
             ranking_reasons |-> scored[i].ranking_reasons,
             confidence |-> confidences[i]]]

\* Step 8, line 226: scored[:k] for k >= 0.
TopK(scored, k) == SubSeq(scored, 1, IF k < Len(scored) THEN k ELSE Len(scored))

RankCall ==
    /\ call.fn = "none"
    /\ \E gifts \in GiftBatches, pi \in TagLists(1),
          history \in RankHistories, k \in {1, 2, DefaultK} :
        LET preferences == [interests |-> pi, vibe |-> <<>>]
            scored == ScoreGifts(gifts, preferences, "u1", history)
            sorted == SortByScore(scored)
            ranked == AttachConfidence(sorted)
        IN  call' = [fn |-> "rank", gifts |-> gifts, k |-> k,
                     scored |-> scored, sorted |-> sorted,
                     ranked |-> ranked, returned |-> TopK(ranked, k)]
    /\ UNCHANGED <<now, supabase, token_usage, req, shadow, iso, tables>>

RankNext ==
    \/ RankCall
    \/ Return

RankSpec == PureInit /\ [][RankNext]_vars

\* ---------------------------------------------------- explanation alone
\* generate_gift_response applied to a ranked list and to what the model's
\* JSON holds.
RankedItems ==
    [name : Names, confidence : {55, 95},
     ranking_reasons : {<<"Matches your interests">>}]

\* Ranked lists as retrieve_gifts returns them: confidences never rising.
RankedLists ==
    {l \in UNION {[1..n -> RankedItems] : n \in 0..MaxList} :
        \A i \in 1..(Len(l) - 1) : l[i].confidence >= l[i + 1].confidence}

ReplyItems ==
    [name : Names \cup {"hat"}, confidence : {55, 95},
     has_confidence : BOOLEAN]

ReplyLists == UNION {[1..n -> ReplyItems] : n \in 0..MaxList}

ExplainCall ==
    /\ call.fn = "none"
    /\ \E gifts \in RankedLists, kind \in LLMReplyKinds,
          items \in ReplyLists :
        /\ kind # "json_object" => items = <<>>
        /\ LET result == generate_gift_response(gifts,
                             [kind |-> kind, gifts |-> items])
           IN  call' = [fn |-> "explain", gifts |-> gifts, kind |-> kind,
                        reply |-> items, result |-> result,
                        response |-> IF result.raised THEN "None"
                                     ELSE UnpackPair(result).llm_response]
    /\ UNCHANGED <<now, supabase, token_usage, req, shadow, iso, tables>>

ExplainNext ==
    \/ ExplainCall
    \/ Return

ExplainSpec == PureInit /\ [][ExplainNext]_vars

\* ------------------------------------------------------- app/persistence
\* user_preferences and inferred_preferences as lists of rows in insertion
\* order, which is the order a select without .order() is taken to answer
\* in.  The tables' constraints are not part of the repository: an insert
\* the store refuses is execute() raising, like any other store fault.
MaxUpdates == 3

Workers == {1, 2}

NoRows == [inferred_preferences |-> <<>>, user_preferences |-> <<>>]

Categories == {"interest", "vibe"}

\* A caller of the persistence functions between two calls.  calls counts
\* the calls it started, succeeded lists the arguments of those that
\* returned True; alone is history: no other caller's save for the same
\* user has run during the save in progress.
AtRest == [pc |-> "idle", args |-> <<>>, existing |-> <<>>, calls |-> 0,
           succeeded |-> <<>>, alone |-> TRUE]

RECURSIVE CallsStarted(_, _)
CallsStarted(workers, ws) ==
    IF ws = {} THEN 0
    ELSE LET w == CHOOSE x \in ws : TRUE
         IN  workers[w].calls + CallsStarted(workers, ws \ {w})

\* update_inferred lines 185-190: the rows of one user, category and value.
SelectInferred(rows, user_id, category, value) ==
    SelectSeq(rows, LAMBDA row: /\ row.user_id = user_id
                                /\ row.category = category
                                /\ row.value = value)

\* .update({"weight": new_weight}).eq("id", id)
UpdateWeight(rows, id, new_weight) ==
    [i \in 1..Len(rows) |->
        IF rows[i].id = id THEN [rows[i] EXCEPT !.weight = new_weight]
        ELSE rows[i]]

\* update_inferred lines 192-218 on what its select answered: increment
\* the first row read, or insert a row of weight 1.  The store numbers the
\* rows; no row of the table is deleted here.  `fault` is execute()
\* raising: the except branch returns False.
update_inferred(rows, existing, user_id, category, value, fault) ==
    IF fault THEN [returned |-> FALSE, rows |-> rows]
    ELSE IF existing # <<>>
    THEN [returned |-> TRUE,
          rows |-> UpdateWeight(rows, existing[1].id, existing[1].weight + 1)]
    ELSE [returned |-> TRUE,
          rows |-> Append(rows, [id |-> Len(rows) + 1, user_id |-> user_id,
                                 category |-> category, value |-> value,
                                 weight |-> 1])]

\* d[key] = weight on a dict kept as its items in insertion order.
DictSet(items, key, weight) ==
    IF \E i \in 1..Len(items) : items[i].key = key
    THEN [i \in 1..Len(items) |->
            IF items[i].key = key THEN [key |-> key, weight |-> weight]
            ELSE items[i]]
    ELSE Append(items, [key |-> key, weight |-> weight])

RECURSIVE CollectInferred(_, _)
\* get_inferred lines 246-250: the loop over result.data.
CollectInferred(data, acc) ==
    IF data = <<>> THEN acc
    ELSE LET row == Head(data)
         IN  CollectInferred(Tail(data),
                IF row.category = "interest"
                THEN [acc EXCEPT !.interests =
                                    DictSet(@, row.value, row.weight)]
                ELSE [acc EXCEPT !.vibe = DictSet(@, row.value, row.weight)])

\* get_inferred: the except branch answers two empty dicts.
get_inferred(rows, user_id, fault) ==
    LET data == SelectSeq(rows, LAMBDA row: row.user_id = user_id)
        empty == [interests |-> <<>>, vibe |-> <<>>]
    IN  IF fault THEN empty ELSE CollectInferred(data, empty)

\* --------------------------------------------- callers of update_inferred
\* Two callers, each calling update_inferred("u1", category, value) again
\* and again; a call is its select and then its write, and the other
\* caller may run between the two.
PersistInit ==
    /\ now = 0
    /\ supabase = "client"
    /\ token_usage = <<>>
    /\ req = [w \in Workers |-> AtRest]
    /\ shadow = <<>>
    /\ iso = <<>>
    /\ call = <<>>
    /\ tables = NoRows

\* update_inferred lines 181-190: get_supabase and the select.
UpdateInferredSelect(w, category, value) ==
    /\ req[w].pc = "idle"
    /\ CallsStarted(req, Workers) < MaxUpdates
    /\ \E fault \in BOOLEAN :
        req' = [req EXCEPT ![w] =
                 IF fault
                 THEN [@ EXCEPT !.calls = @ + 1]
                 ELSE [@ EXCEPT !.pc = "update_inferred",
                                !.calls = @ + 1,
                                !.args = <<category, value>>,
                                !.existing = SelectInferred(
                                    tables.inferred_preferences,
                                    "u1", category, value)]]
    /\ UNCHANGED <<now, supabase, token_usage, shadow, iso, call, tables>>

\* update_inferred lines 192-222: the update or the insert, and the return.
UpdateInferredWrite(w) ==
    /\ req[w].pc = "update_inferred"
    /\ \E fault \in BOOLEAN :
        LET out == update_inferred(tables.inferred_preferences,
                                   req[w].existing, "u1",
                                   req[w].args[1], req[w].args[2], fault)
        IN  /\ tables' = [tables EXCEPT !.inferred_preferences = out.rows]
            /\ req' = [req EXCEPT ![w] =
                        [@ EXCEPT !.pc = "idle", !.args = <<>>,
                                  !.existing = <<>>,
                                  !.succeeded = IF out.returned
                                                THEN Append(@, req[w].args)
                                                ELSE @]]
    /\ UNCHANGED <<now, supabase, token_usage, shadow, iso, call>>

InferredNext ==
    \/ \E w \in Workers, category \in Categories, value \in Tags :
          UpdateInferredSelect(w, category, value)
    \/ \E w \in Workers : UpdateInferredWrite(w)

InferredSpec == PersistInit /\ [][InferredNext]_vars

\* ---------------------------------------------- callers of save_preferences
\* An Optional[List[str]] is a sequence holding no value (None) or one list.
None == <<>>

Some(x) == <<x>>

Users == {"u1", "u2"}

\* (interests, vibe) pairs handed to save_preferences; PreferencesRequest
\* declares both Optional[List[str]].
PrefArgs ==
    {[interests |-> None, vibe |-> Some(<<>>)],
     [interests |-> Some(<<"art">>), vibe |-> Some(<<"tech">>)],
     [interests |-> Some(<<"tech", "art">>), vibe |-> Some(<<"art">>)]}

\* save_preferences that inserts a row whether or not one exists.
save_preferences_insert_always(rows, existing, user_id, interests, vibe, fault) ==
    IF fault THEN [returned |-> FALSE, rows |-> rows]
    ELSE [returned |-> TRUE,
          rows |-> Append(rows, [user_id |-> user_id,
                                 interests |-> interests, vibe |-> vibe])]

\* save_preferences lines 35-59 on what its select answered: update every
\* row of the user, or insert one.  `fault` is execute() raising: the
\* except branch returns False.
save_preferences(rows, existing, user_id, interests, vibe, fault) ==
    IF fault THEN [returned |-> FALSE, rows |-> rows]
    ELSE IF existing # <<>>
    THEN [returned |-> TRUE,
          rows |-> [i \in 1..Len(rows) |->
                      IF rows[i].user_id = user_id
                      THEN [rows[i] EXCEPT !.interests = interests,
                                           !.vibe = vibe]
                      ELSE rows[i]]]
    ELSE [returned |-> TRUE,
          rows |-> Append(rows, [user_id |-> user_id,
                                 interests |-> interests, vibe |-> vibe])]

\* get_preferences: None when no row answers or the read raised, else the
\* first row's interests and vibe.
get_preferences(rows, user_id, fault) ==
    LET data == SelectSeq(rows, LAMBDA row: row.user_id = user_id)
    IN  IF fault THEN None
        ELSE IF data = <<>> THEN None
        ELSE Some([interests |-> data[1].interests, vibe |-> data[1].vibe])

NoSave == [fn |-> "none"]

\* call[u] is history: the last save for u that returned True, while no
\* later save for u has started.
PrefsInit ==
    /\ now = 0
    /\ supabase = "client"
    /\ token_usage = <<>>
    /\ req = [w \in Workers |-> AtRest]
    /\ shadow = <<>>
    /\ iso = <<>>
    /\ call = [u \in Users |-> NoSave]
    /\ tables = NoRows

\* The callers in the middle of a save for user_id.
Saving(user_id) ==
    {x \in Workers : req[x].pc = "save_preferences"
                     /\ req[x].args.user_id = user_id}

\* save_preferences lines 26-33: get_supabase and the select.
SavePreferencesSelect(w, user_id, prefs) ==
    /\ req[w].pc = "idle"
    /\ CallsStarted(req, Workers) < MaxUpdates
    /\ \E fault \in BOOLEAN :
        req' = [x \in Workers |->
                 IF x = w
                 THEN IF fault
                      THEN [req[w] EXCEPT !.calls = @ + 1]
                      ELSE [req[w] EXCEPT
                              !.pc = "save_preferences",
                              !.calls = @ + 1,
                              !.args = [user_id |-> user_id,
                                        interests |-> prefs.interests,
                                        vibe |-> prefs.vibe],
                              !.existing = SelectSeq(
                                  tables.user_preferences,
                                  LAMBDA row: row.user_id = user_id),
                              !.alone = Saving(user_id) = {}]
                 ELSE IF x \in Saving(user_id)
                      THEN [req[x] EXCEPT !.alone = FALSE]
                      ELSE req[x]]
    /\ call' = [call EXCEPT ![user_id] = NoSave]
    /\ UNCHANGED <<now, supabase, token_usage, shadow, iso, tables>>

\* save_preferences lines 35-59: the update or the insert, and the return.
SavePreferencesWrite(w) ==
    /\ req[w].pc = "save_preferences"
    /\ \E fault \in BOOLEAN :
        LET a == req[w].args
            out == save_preferences(tables.user_preferences, req[w].existing,
                                    a.user_id, a.interests, a.vibe, fault)
        IN  /\ tables' = [tables EXCEPT !.user_preferences = out.rows]
            /\ call' = [call EXCEPT ![a.user_id] =
                          IF out.returned /\ Saving(a.user_id) = {w}
                          THEN [fn |-> "save_preferences", args |-> a,
                                alone |-> req[w].alone]
                          ELSE @]
            /\ req' = [req EXCEPT ![w] =
                        [@ EXCEPT !.pc = "idle", !.args = <<>>,
                                  !.existing = <<>>, !.alone = TRUE,
                                  !.succeeded = IF out.returned
                                                THEN Append(@, a) ELSE @]]
    /\ UNCHANGED <<now, supabase, token_usage, shadow, iso>>

PrefsNext ==
    \/ \E w \in Workers, user_id \in Users, prefs \in PrefArgs :
          SavePreferencesSelect(w, user_id, prefs)
    \/ \E w \in Workers : SavePreferencesWrite(w)

PrefsSpec == PrefsInit /\ [][PrefsNext]_vars

\* ------------------------------------------------- the usage log on its own
\* timedelta(days=days) in ticks: the model's day is SecondsPerDay seconds.
SecondsPerDay == 2

DayTicks == SecondsPerDay * TicksPerSecond

\* Long enough for a record to grow older than one day.
MaxClock == DayTicks + 1

\* The days argument of cleanup_old_token_usage.
RetentionDays == {0, 1}

\* The cleanup with .lte: the row stamped exactly at the cutoff goes too.
cleanup_old_token_usage_lte(table, days, utcnow, fault) ==
    LET cutoff == utcnow - days * DayTicks
        kept == SelectSeq(table, LAMBDA row: ~(row.timestamp <= cutoff))
    IN  IF fault THEN [count |-> 0, table |-> table]
        ELSE [count |-> Len(table) - Len(kept), table |-> kept]

\* The cleanup with .gt: it deletes what is newer than the cutoff.
cleanup_old_token_usage_gt(table, days, utcnow, fault) ==
    LET cutoff == utcnow - days * DayTicks
        kept == SelectSeq(table, LAMBDA row: ~(row.timestamp > cutoff))
    IN  IF fault THEN [count |-> 0, table |-> table]
        ELSE [count |-> Len(table) - Len(kept), table |-> kept]

\* cleanup_old_token_usage: delete().lt("timestamp", cutoff) over every
\* client's rows; count is len(result.data).  `fault` is execute() raising:
\* the except branch returns 0 and nothing is deleted.
cleanup_old_token_usage(table, days, utcnow, fault) ==
    LET cutoff == utcnow - days * DayTicks
        kept == SelectSeq(table, LAMBDA row: ~(row.timestamp < cutoff))
    IN  IF fault THEN [count |-> 0, table |-> table]
        ELSE [count |-> Len(table) - Len(kept), table |-> kept]

\* call is the store operation of the last step, if it was one.
NoCall == [fn |-> "none"]

LedgerInit ==
    /\ now = 0
    /\ supabase = "client"
    /\ token_usage = <<>>
    /\ req = <<>>
    /\ shadow = <<>>
    /\ iso = <<>>
    /\ call = NoCall
    /\ tables = <<>>

LedgerTick ==
    /\ now < MaxClock
    /\ now' = now + 1
    /\ call' = NoCall
    /\ UNCHANGED <<supabase, token_usage, req, shadow, iso, tables>>

\* record_token_usage(client, ip, units, ...), the store accepting the
\* write or not.
LedgerRecord(ip, units) ==
    /\ Len(token_usage) < MaxRecords
    /\ \E fault \in BOOLEAN :
        LET out == record_token_usage(token_usage, ip, PyInt(units),
                                      now, fault)
        IN  /\ token_usage' = out.table
            /\ call' = [fn |-> "record_token_usage",
                        returned |-> out.outcome = "ok"]
    /\ UNCHANGED <<now, supabase, req, shadow, iso, tables>>

\* cleanup_old_token_usage(client, days).
LedgerCleanup(days) ==
    /\ \E fault \in BOOLEAN :
        LET out == cleanup_old_token_usage(token_usage, days, now, fault)
        IN  /\ token_usage' = out.table
            /\ call' = [fn |-> "cleanup_old_token_usage", days |-> days,
                        failed |-> fault, count |-> out.count]
    /\ UNCHANGED <<now, supabase, req, shadow, iso, tables>>

\* get_hourly_token_usage(client, ip) or check_rate_limit(client, ip): reads.
LedgerRead ==
    /\ call' = [fn |-> "read"]
    /\ UNCHANGED <<now, supabase, token_usage, req, shadow, iso, tables>>

LedgerNext ==
    \/ LedgerTick
    \/ \E ip \in IPs, units \in Units : LedgerRecord(ip, units)
    \/ \E days \in RetentionDays : LedgerCleanup(days)
    \/ LedgerRead

LedgerSpec == LedgerInit /\ [][LedgerNext]_vars

\* ------------------------------------------------ one check_rate_limit call
\* One call of check_rate_limit at a time, for the observed client, with
\* either client's records, cleanups and the clock going on between its
\* two reads.  counted and seen are history:
\* the rows the sum read answered and the rows in the window at the
\* oldest-record read; t_sum and t_oldest are the utcnow() of the reads.
NoCheck == [pc |-> "idle", ip_address |-> "None", tokens_used |-> 0,
            sum_fault |-> FALSE, oldest_fault |-> FALSE, t_sum |-> 0,
            t_oldest |-> 0, counted |-> <<>>, seen |-> <<>>,
            oldest |-> <<>>, result |-> <<>>]

CheckInit ==
    /\ now = 0
    /\ supabase = "client"
    /\ token_usage = <<>>
    /\ req = NoCheck
    /\ shadow = <<>>
    /\ iso = <<>>
    /\ call = <<>>
    /\ tables = <<>>

\* check_rate_limit line 134: get_hourly_token_usage and its select.
CheckSum(ip) ==
    /\ req.pc = "idle"
    /\ \E fault \in BOOLEAN :
        req' = [NoCheck EXCEPT
                  !.pc = "summed", !.ip_address = ip,
                  !.tokens_used = get_hourly_token_usage(token_usage, ip,
                                                         now, fault),
                  !.sum_fault = fault, !.t_sum = now,
                  !.counted = IF fault THEN <<>>
                              ELSE SelectWindow(token_usage, ip, now - Window)]
    /\ UNCHANGED <<now, supabase, token_usage, shadow, iso, call, tables>>

\* check_rate_limit lines 136-162: the oldest-record select and the result.
CheckOldest ==
    /\ req.pc = "summed"
    /\ \E fault \in BOOLEAN :
        req' = [req EXCEPT
                  !.pc = "returned", !.oldest_fault = fault, !.t_oldest = now,
                  !.seen = SelectWindow(token_usage, req.ip_address,
                                        now - Window),
                  !.oldest = IF fault THEN <<>>
                             ELSE OldestRecord(token_usage, req.ip_address,
                                               now - Window),
                  !.result = <<check_rate_limit(req.tokens_used, token_usage,
                                                req.ip_address, now, fault)>>]
    /\ UNCHANGED <<now, supabase, token_usage, shadow, iso, call, tables>>

\* The caller has the tuple; the next call starts from nothing.
CheckReturn ==
    /\ req.pc = "returned"
    /\ req' = NoCheck
    /\ UNCHANGED <<now, supabase, token_usage, shadow, iso, call, tables>>

\* cleanup_old_token_usage(client, days) by another caller.
CheckCleanup(days) ==
    /\ req.pc # "returned"
    /\ \E fault \in BOOLEAN :
        token_usage' = cleanup_old_token_usage(token_usage, days, now,
                                               fault).table
    /\ token_usage' # token_usage
    /\ UNCHANGED <<now, supabase, req, shadow, iso, call, tables>>

\* Nothing else happens between the return and the caller taking the tuple.
CheckNext ==
    \/ req.pc # "returned" /\ Tick
    \/ \E ip \in IPs, units \in Units :
          req.pc # "returned" /\ DirectRecord(ip, units)
    \/ \E days \in RetentionDays : CheckCleanup(days)
    \/ CheckSum(Observed)
    \/ CheckOldest
    \/ CheckReturn

CheckSpec == CheckInit /\ [][CheckNext]_vars

\* ------------------------------------------------------ get_client_ip alone
\* Header values are strings, kept as sequences of characters; a header or
\* the peer that is not there is None, one that is there is Some(string).
MaxHeader == 3

Strings(chars, n) == UNION {[1..k -> chars] : k \in 0..n}

\* X-Forwarded-For values: hops of "x", commas and blanks.
ForwardedValues == {None} \cup {Some(s) : s \in Strings({"x", ",", " "}, MaxHeader)}

\* X-Real-IP values.
RealIpValues == {None} \cup {Some(s) : s \in Strings({"y", " "}, MaxHeader - 1)}

\* request.client: None or an address with a host.
PeerValues == {None, Some(<<"z">>)}

RECURSIVE Strip(_)
\* str.strip() for blanks.
Strip(s) ==
    IF s = <<>> THEN s
    ELSE IF Head(s) = " " THEN Strip(Tail(s))
    ELSE IF s[Len(s)] = " " THEN Strip(SubSeq(s, 1, Len(s) - 1))
    ELSE s

\* str.split(",")[0]: what stands before the first comma.
FirstField(s) ==
    LET commas == {i \in 1..Len(s) : s[i] = ","}
    IN  IF commas = {} THEN s
        ELSE SubSeq(s, 1, (CHOOSE i \in commas : \A j \in commas : i <= j) - 1)

\* get_client_ip that looks at X-Real-IP before X-Forwarded-For.
get_client_ip_real_ip_first(forwarded_for, real_ip, client) ==
    IF real_ip # None /\ real_ip[1] # <<>> THEN Strip(real_ip[1])
    ELSE IF forwarded_for # None /\ forwarded_for[1] # <<>>
    THEN Strip(FirstField(forwarded_for[1]))
    ELSE IF client # None THEN client[1] ELSE <<"u", "n", "k", "n", "o", "w", "n">>

\* get_client_ip: `if forwarded_for:` and `if real_ip:` are false for None
\* and for the empty string alike.
get_client_ip(forwarded_for, real_ip, client) ==
    IF forwarded_for # None /\ forwarded_for[1] # <<>>
    THEN Strip(FirstField(forwarded_for[1]))
    ELSE IF real_ip # None /\ real_ip[1] # <<>> THEN Strip(real_ip[1])
    ELSE IF client # None THEN client[1] ELSE <<"u", "n", "k", "n", "o", "w", "n">>

ClientIpCall ==
    /\ call.fn = "none"
    /\ \E forwarded_for \in ForwardedValues, real_ip \in RealIpValues,
          client \in PeerValues :
        call' = [fn |-> "get_client_ip", forwarded_for |-> forwarded_for,
                 real_ip |-> real_ip, client |-> client,
                 ip |-> get_client_ip(forwarded_for, real_ip, client)]
    /\ UNCHANGED <<now, supabase, token_usage, req, shadow, iso, tables>>

ClientIpNext ==
    \/ ClientIpCall
    \/ Return

ClientIpSpec == PureInit /\ [][ClientIpNext]_vars

\* ------------------------------------------------ normalize_list_field alone
\* A tag field of a gifts row: a list of strings, one string, or something
\* else (null, a number).  Strings are sequences of characters.
MaxTagLen == 2

MaxTags == 2

\* Tags as a catalog row may spell them: letters in either case and blanks.
RawTags == Strings({"a", "A", " "}, MaxTagLen)

RawTagLists == UNION {[1..k -> RawTags] : k \in 0..MaxTags}

PyList(items) == [type |-> "list", items |-> items]

PyText(text) == [type |-> "str", text |-> text]

PyOther == [type |-> "other"]

RECURSIVE Join(_)
\* ",".join(items)
Join(items) ==
    IF items = <<>> THEN <<>>
    ELSE IF Len(items) = 1 THEN items[1]
    ELSE items[1] \o <<",">> \o Join(Tail(items))

RECURSIVE Split(_)
\* str.split(","): the fields between the commas, one more than commas.
Split(s) ==
    LET commas == {i \in 1..Len(s) : s[i] = ","}
        first == CHOOSE i \in commas : \A j \in commas : i <= j
    IN  IF commas = {} THEN <<s>>
        ELSE <<SubSeq(s, 1, first - 1)>> \o Split(SubSeq(s, first + 1, Len(s)))

\* str.lower()
Lower(s) == [i \in 1..Len(s) |-> IF s[i] = "A" THEN "a" ELSE s[i]]

\* normalize_list_field: the list branch maps every element, the string
\* branch drops the fields that are blank, anything else gives [].
normalize_list_field(value) ==
    IF value.type = "list"
    THEN [i \in 1..Len(value.items) |-> Lower(Strip(value.items[i]))]
    ELSE IF value.type = "str"
    THEN LET fields == SelectSeq(Split(value.text),
                                 LAMBDA v: Strip(v) # <<>>)
         IN  [i \in 1..Len(fields) |-> Lower(Strip(fields[i]))]
    ELSE <<>>

\* One tag field given as a list and as the comma-joined string of the
\* same tags, or a field of another shape.
NormalizeCall ==
    /\ call.fn = "none"
    /\ \/ \E tags \in RawTagLists :
            call' = [fn |-> "normalize_list_field", shape |-> "tags",
                     tags |-> tags,
                     from_list |-> normalize_list_field(PyList(tags)),
                     from_string |->
                         normalize_list_field(PyText(Join(tags)))]
       \/ call' = [fn |-> "normalize_list_field", shape |-> "other",
                   tags |-> <<>>,
                   from_list |-> normalize_list_field(PyOther),
                   from_string |-> normalize_list_field(PyOther)]
    /\ UNCHANGED <<now, supabase, token_usage, req, shadow, iso, tables>>

NormalizeNext ==
    \/ NormalizeCall
    \/ Return

NormalizeSpec == PureInit /\ [][NormalizeNext]_vars

\* ------------------------------------- semantic_score_from_query_match alone
\* The containment tests themselves, on texts kept as character sequences.
Texts == {<<>>, <<"a">>, <<"A", "b">>}

TextLists == {<<>>, <<<<"a">>>>, <<<<"b">>, <<"A", "b">>>>}

Queries == {<<>>, <<"A">>, <<"b">>, <<"a", "B">>}

\* str.lower() on the letters in use.
LowerText(s) ==
    [i \in 1..Len(s) |-> IF s[i] = "A" THEN "a"
                         ELSE IF s[i] = "B" THEN "b" ELSE s[i]]

\* `q in text`: q occurs in text as a substring.
Contains(text, q) ==
    \E i \in 0..Len(text) :
        i + Len(q) <= Len(text) /\ SubSeq(text, i + 1, i + Len(q)) = q

\* The gifts the query is tested against.
TextGifts ==
    [name : Texts, description : Texts, categories : TextLists,
     interests : TextLists, occasions : TextLists]

\* Lines 75-98: the fields the five tests find the query in.
QueryIn(gift, query) ==
    LET q == LowerText(query)
        in_list(list) == \E i \in 1..Len(list) :
                             Contains(LowerText(list[i]), q)
    IN  (IF Contains(LowerText(gift.name), q) THEN {"name"} ELSE {})
        \cup (IF Contains(LowerText(gift.description), q)
              THEN {"description"} ELSE {})
        \cup (IF in_list(gift.categories) THEN {"categories"} ELSE {})
        \cup (IF in_list(gift.interests) THEN {"interests"} ELSE {})
        \cup (IF in_list(gift.occasions) THEN {"occasions"} ELSE {})

RelevanceCall ==
    /\ call.fn = "none"
    /\ \E gift \in TextGifts, query \in Queries :
        call' = [fn |-> "semantic_score", gift |-> gift, query |-> query,
                 query_in |-> QueryIn(gift, query),
                 semantic_score |->
                     semantic_score_from_query_match(QueryIn(gift, query))]
    /\ UNCHANGED <<now, supabase, token_usage, req, shadow, iso, tables>>

RelevanceNext ==
    \/ RelevanceCall
    \/ Return

RelevanceSpec == PureInit /\ [][RelevanceNext]_vars

\* ==================================================================== claims

RECURSIVE UnitsAt(_, _)
\* The units of the rows of `table` at the positions `idx`, added up.
UnitsAt(table, idx) ==
    IF idx = {} THEN 0
    ELSE LET i == CHOOSE j \in idx : TRUE
         IN  table[i].tokens_used + UnitsAt(table, idx \ {i})

\* The units `client` consumed in the window that ends at `t`.
InWindowUnits(table, client, t) ==
    UnitsAt(table, {i \in 1..Len(table) :
                       /\ table[i].ip_address = client
                       /\ table[i].timestamp >= t - Window})

\* C1: a gate check whose two reads succeed reports as tokens_used the sum
\* of the units of the requesting client's rows stamped at or after
\* now - W, now being the instant of the sum read, and is allowed exactly
\* when that sum is below the budget, so a sum equal to the budget is
\* refused.
C1_GateCountsWindow ==
    [][\A r \in DOMAIN req :
        /\ (/\ req[r].pc = "GATE_CHECK"
            /\ req'[r].pc = "GATE_OLDEST"
            /\ ~req'[r].gate_fault)
           => req'[r].tokens_used =
                  InWindowUnits(token_usage, req[r].ip_address, now)
        /\ (/\ req[r].pc = "GATE_OLDEST"
            /\ req'[r].pc = "GATE_DECIDE"
            /\ ~req'[r].gate_fault)
           => /\ req'[r].tokens_used = req[r].tokens_used
              /\ req'[r].is_allowed <=>
                     (req[r].tokens_used < HOURLY_TOKEN_LIMIT)]_vars

\* C1 witness: a client holding one unit under the budget of two consumed
\* two more, and its next check is refused reporting three.
C1_Witness ==
    \E r \in DOMAIN req :
        /\ req[r].pc = "REJECTED"
        /\ req[r].detail[1].tokens_used = HOURLY_TOKEN_LIMIT + 1
        /\ Len(token_usage) = 2
        /\ token_usage[1].ip_address = req[r].ip_address
        /\ token_usage[2].ip_address = req[r].ip_address
        /\ token_usage[1].tokens_used = HOURLY_TOKEN_LIMIT - 1
        /\ token_usage[2].tokens_used = 2

AfterGate == {"PREFERENCE_MERGE", "RETRIEVE_CANDIDATES", "EXPLAIN",
              "RECORD_USAGE", "DONE", "REJECTED", "FAULT"}

\* C2: a request one of whose gate reads of the usage store raised is
\* allowed by check_rate_limit, is never rejected, and enters the pipeline
\* (PREFERENCE_MERGE).
C2_FailOpen ==
    \A r \in DOMAIN req :
        req[r].gate_fault =>
            /\ req[r].pc = "GATE_DECIDE" => req[r].is_allowed
            /\ req[r].pc \in AfterGate =>
                  /\ req[r].is_allowed
                  /\ req[r].pc # "REJECTED"
                  /\ Len(req[r].trace) >= 2
                  /\ req[r].trace[2] = "PREFERENCE_MERGE"

\* C2 witness: a client at or over its budget was admitted into the
\* pipeline because a gate read raised.
C2_Witness ==
    \E r \in DOMAIN req :
        /\ req[r].gate_fault
        /\ req[r].pc = "PREFERENCE_MERGE"
        /\ InWindowUnits(token_usage, req[r].ip_address, now)
               >= HOURLY_TOKEN_LIMIT

\* C3: every admitted request that completes while the usage store
\* accepts writes has appended exactly one usage record, and its units are
\* the token cost the explanation call reported.
C3_PostHocAccounting ==
    \A r \in DOMAIN req :
        (req[r].pc = "DONE" /\ req[r].record # "store_fault")
            => req[r].appended = <<req[r].cost>>

PipelineOrder ==
    <<"GATE_CHECK", "PREFERENCE_MERGE", "RETRIEVE_CANDIDATES", "SCORE",
      "NORMALIZE", "BUILD_REASONS", "DONE">>

\* C5: an admitted request that has ended in DONE went through
\* PREFERENCE_MERGE, RETRIEVE_CANDIDATES, SCORE, NORMALIZE, BUILD_REASONS
\* and DONE, each once and in that order.
C5_PipelineOrder ==
    \A r \in DOMAIN req :
        req[r].pc = "DONE" => req[r].trace = PipelineOrder

\* C6: no request ends with an exception that left the pipeline; every
\* request ends rejected or with a result.
C6_NoUnhandledFault ==
    \A r \in DOMAIN req : req[r].pc # "FAULT"

C8_RecordFailureHarmless ==
    [][\A r \in DOMAIN req :
        (/\ req[r].pc = "RECORD_USAGE"
         /\ req'[r].pc # "RECORD_USAGE"
         /\ req'[r].record # "ok")
           => /\ req'[r].pc = "DONE"
              /\ req'[r].response = req[r].llm_response
              /\ req'[r].response # "None"
              /\ token_usage' = token_usage]_vars

\* C8 witness: the store raised on the append and the request has ended
\* in DONE with its result.
C8_Witness ==
    \E r \in DOMAIN req :
        /\ req[r].pc = "DONE"
        /\ req[r].record = "store_fault"
        /\ req[r].response = "intro"

\* C9: the detail of every rejection carries tokens_used, limit,
\* reset_time and retry_after_seconds; tokens_used is the sum the gate
\* computed and is at least the limit, limit is the budget, reset_time is
\* the gate's reset time, and retry_after_seconds is the whole seconds from
\* now to reset_time, or 0 when reset_time is not in the future.
C9_RejectionPayload ==
    [][\A r \in DOMAIN req :
        (req[r].pc = "GATE_DECIDE" /\ req'[r].pc = "REJECTED")
           => /\ Len(req'[r].detail) = 1
              /\ {"tokens_used", "limit", "reset_time",
                  "retry_after_seconds"} \subseteq DOMAIN req'[r].detail[1]
              /\ req'[r].detail[1].tokens_used = req[r].tokens_used
              /\ req'[r].detail[1].tokens_used >= req'[r].detail[1].limit
              /\ req'[r].detail[1].limit = HOURLY_TOKEN_LIMIT
              /\ req'[r].detail[1].reset_time = req[r].reset_time
              /\ req'[r].detail[1].retry_after_seconds >= 0
              /\ req'[r].detail[1].retry_after_seconds =
                    (IF req[r].reset_time > now
                     THEN (req[r].reset_time - now) \div TicksPerSecond
                     ELSE 0)]_vars

\* C9 witness: a rejection issued a whole second after its reset time had
\* passed, reporting 0 seconds to wait.
C9_Witness ==
    \E r \in DOMAIN req :
        /\ req[r].pc = "REJECTED"
        /\ req[r].detail[1].retry_after_seconds = 0
        /\ req[r].detail[1].reset_time < now - 1
        /\ req[r].detail[1].tokens_used >= HOURLY_TOKEN_LIMIT

\* C10: in two runs that differ only in the usage recorded for other
\* clients, every gate check of the observed client yields the same
\* decision, the same tokens_used, the same reset time and the same
\* rejection detail in both.
C10_Isolation ==
    iso # <<>> => iso.first = iso.second

\* C10 witness: the observed client was admitted with one unit used while,
\* in the first run only, another client holds a full budget in the window.
C10_Witness ==
    /\ iso # <<>>
    /\ iso.pc = "decide"
    /\ iso.first.is_allowed
    /\ iso.first.tokens_used = 1
    /\ InWindowUnits(token_usage, "ip_b", now) >= HOURLY_TOKEN_LIMIT
    /\ InWindowUnits(shadow, "ip_b", now) = 0

\* C11: when a check whose reads succeed takes its reset time r from the
\* client's oldest in-window record, then with the table as it stands the
\* client's in-window sum is at no time from the check up to r lower than
\* at the check, and at time r that oldest record is no longer counted.
C11_ResetIsEarliestFall ==
    [][\A r \in DOMAIN req :
        (/\ req[r].pc = "GATE_OLDEST"
         /\ req'[r].pc = "GATE_DECIDE"
         /\ ~req'[r].gate_fault
         /\ OldestRecord(token_usage, req[r].ip_address, now - Window) # <<>>)
           => LET client == req[r].ip_address
                  reset == req'[r].reset_time
                  oldest == OldestRecord(token_usage, client, now - Window)[1]
              IN  /\ \A u \in now..(reset - 1) :
                        InWindowUnits(token_usage, client, u)
                            >= InWindowUnits(token_usage, client, now)
                  /\ InWindowUnits(token_usage, client, reset)
                        <= InWindowUnits(token_usage, client, now)
                               - oldest.tokens_used]_vars

\* All the units `client` has on record.
ClientUnits(table, client) ==
    UnitsAt(table, {i \in 1..Len(table) : table[i].ip_address = client})

\* C12: two requests of one client, each admitted before the other had
\* recorded, whose explanation calls cost more than the budget together,
\* have, once both have recorded with the store accepting writes, put more
\* than the budget on the client's record.
C12_RaceOverAdmits ==
    \A r, q \in DOMAIN req :
        (/\ r # q
         /\ q \in req[r].peers
         /\ req[r].pc = "DONE" /\ req[q].pc = "DONE"
         /\ req[r].record # "store_fault" /\ req[q].record # "store_fault"
         /\ req[r].cost + req[q].cost > HOURLY_TOKEN_LIMIT)
           => ClientUnits(token_usage, req[r].ip_address) > HOURLY_TOKEN_LIMIT

RECURSIVE Count(_, _)
\* How often `x` occurs in the list.
Count(list, x) ==
    IF list = <<>> THEN 0
    ELSE (IF Head(list) = x THEN 1 ELSE 0) + Count(Tail(list), x)

\* The weight the inferred items give `tag`, 0 when they do not hold it.
WeightOf(items, tag) ==
    IF \E i \in 1..Len(items) : items[i].key = tag
    THEN items[CHOOSE i \in 1..Len(items) : items[i].key = tag].weight
    ELSE 0

\* C13: in each category the merged list starts with the explicit list
\* unchanged and continues with each inferred tag exactly weight times and
\* nothing else; with no inferred tags it is the explicit list, and a tag
\* occurs its explicit count plus its inferred weight times.
C13_MergeMultiplicity ==
    call.fn = "merge" =>
        \A cat \in {"interests", "vibe"} :
            LET m == call.merged[cat]
                e == call.explicit[cat]
                inf == call.inferred[cat]
            IN  /\ Len(m) >= Len(e)
                /\ SubSeq(m, 1, Len(e)) = e
                /\ \A tag \in Tags :
                     /\ Count(SubSeq(m, Len(e) + 1, Len(m)), tag)
                            = WeightOf(inf, tag)
                     /\ Count(m, tag) = Count(e, tag) + WeightOf(inf, tag)
                /\ inf = <<>> => m = e

\* C13 witness: explicit <<art>> merged with inferred art of weight 2 and
\* tech of weight 1 gives art three times and tech once, explicit first.
C13_Witness ==
    /\ call.fn = "merge"
    /\ call.explicit.interests = <<"art">>
    /\ call.inferred.interests = <<[key |-> "art", weight |-> 2],
                                   [key |-> "tech", weight |-> 1]>>
    /\ call.merged.interests = <<"art", "art", "art", "tech">>
    /\ call.inferred.vibe = <<>>
    /\ call.merged.vibe = call.explicit.vibe

\* C14: the preference merge never raises: whatever the preference reads
\* answer, a request at PREFERENCE_MERGE goes on to RETRIEVE_CANDIDATES.
C14_MergeNeverRaises ==
    [][\A r \in DOMAIN req :
        (req[r].pc = "PREFERENCE_MERGE" /\ req'[r].pc # "PREFERENCE_MERGE")
           => /\ req'[r].pc = "RETRIEVE_CANDIDATES"
              /\ req'[r].fault_at = "none"]_vars

\* The entries of the history about the gift called `name`, liked or not.
EntriesAbout(history, name, liked) ==
    {i \in 1..Len(history) :
        history[i].gift_name = name /\ history[i].liked = liked}

\* The tags of Tags that occur in both lists.
CommonTags(a, b) ==
    {t \in Tags : Count(a, t) > 0 /\ Count(b, t) > 0}

\* The list with every repeated occurrence of a tag removed.
Dedup(list) ==
    SelectSeq([i \in 1..Len(list) |->
                  IF \E j \in 1..(i - 1) : list[j] = list[i]
                  THEN "" ELSE list[i]],
              LAMBDA t : t # "")

\* C15: a gift's score is 3 for every distinct interest it shares with the
\* preferences, 2 for every distinct vibe, +4 / -6 for every liked /
\* other feedback entry of the user about this very gift, plus the
\* relevance of the query; it is not clamped at 0; repeating a preference
\* tag or adding feedback about other gifts does not change it.
C15_RawScore ==
    call.fn = "score" =>
        LET g == call.gift
            p == call.preferences
            feedback == IF call.user_id = "None" THEN 0
                ELSE 4 * Cardinality(EntriesAbout(call.history, g.name, TRUE))
                   - 6 * Cardinality(EntriesAbout(call.history, g.name, FALSE))
        IN  /\ call.score =
                  3 * Cardinality(CommonTags(g.interests, p.interests))
                  + 2 * Cardinality(CommonTags(g.vibe, p.vibe))
                  + feedback + call.semantic_score
            /\ call.score = total_score(g,
                   [interests |-> Dedup(p.interests), vibe |-> Dedup(p.vibe)],
                   call.user_id, call.history)
            /\ call.score = total_score(g, p, call.user_id,
                   SelectSeq(call.history,
                             LAMBDA en : en.gift_name = g.name))

\* C15 witness: a preference list holding art twice matches the gift's art
\* once (3), and two dislikes of the gift bring the score to -9.
C15_Witness ==
    /\ call.fn = "score"
    /\ call.preferences.interests = <<"art", "art">>
    /\ call.gift.interests = <<"art">>
    /\ call.score_data.breakdown.interest_match = 1
    /\ call.score_data.breakdown.feedback = -12
    /\ call.score = -9

\* C16: for a non-empty batch every confidence lies between 0.55 and 0.95;
\* when all scores are equal every confidence is 0.60; otherwise each is
\* the hundredth nearest to 0.55 + (score - min) / (max - min) * 0.40, the
\* maximum getting 0.95 and the minimum 0.55.
C16_ConfidenceRange ==
    (call.fn = "confidences" /\ call.scores # <<>>) =>
        LET sc == call.scores
            c == call.confidences
            idx == 1..Len(sc)
            lo == CHOOSE x \in Range(sc) : \A y \in Range(sc) : x <= y
            hi == CHOOSE x \in Range(sc) : \A y \in Range(sc) : x >= y
        IN  /\ Len(c) = Len(sc)
            /\ \A i \in idx : c[i] >= 55 /\ c[i] <= 95
            /\ lo = hi => \A i \in idx : c[i] = 60
            /\ lo # hi =>
                 \A i \in idx :
                    /\ 2 * (c[i] * (hi - lo)
                            - (55 * (hi - lo) + 40 * (sc[i] - lo))) <= hi - lo
                    /\ 2 * ((55 * (hi - lo) + 40 * (sc[i] - lo))
                            - c[i] * (hi - lo)) <= hi - lo
                    /\ sc[i] = hi => c[i] = 95
                    /\ sc[i] = lo => c[i] = 55

\* C16 witness: the scores -3, 0, 1 get 0.55, 0.85 and 0.95.
C16_Witness ==
    /\ call.fn = "confidences"
    /\ call.scores = <<0 - 3, 0, 1>>
    /\ call.confidences = <<55, 85, 95>>

\* C19: the reasons are never empty and never repeat; they are the
\* interest reason iff interests matched, then the vibe reason iff vibes
\* matched, then the feedback reason iff the feedback score is above 0, in
\* that order, and the fallback reason alone iff none of the three applies.
C19_ReasonsFixedOrder ==
    call.fn = "score" =>
        LET rs == call.ranking_reasons
            b == call.score_data.breakdown
            order == <<"Matches your interests", "Fits your preferred vibe",
                       "You liked something similar before">>
            pos(reason) == CHOOSE i \in 1..3 : order[i] = reason
        IN  /\ rs # <<>>
            /\ \A i, j \in 1..Len(rs) : i # j => rs[i] # rs[j]
            /\ Count(rs, order[1]) > 0 <=> b.interest_match > 0
            /\ Count(rs, order[2]) > 0 <=> b.vibe_match > 0
            /\ Count(rs, order[3]) > 0 <=> b.feedback > 0
            /\ rs = <<"Relevant to your search">>
                   <=> (b.interest_match = 0 /\ b.vibe_match = 0
                        /\ b.feedback <= 0)
            /\ rs # <<"Relevant to your search">>
                   => /\ \A i \in 1..Len(rs) : \E n \in 1..3 : rs[i] = order[n]
                      /\ \A i, j \in 1..Len(rs) :
                            i < j => pos(rs[i]) < pos(rs[j])

\* C19 witness: interests and vibe matched and the gift was liked once:
\* all three reasons, in priority order.
C19_Witness ==
    /\ call.fn = "score"
    /\ call.score_data.breakdown.feedback = 4
    /\ call.ranking_reasons = <<"Matches your interests",
                                "Fits your preferred vibe",
                                "You liked something similar before">>

\* A scored gift without its confidence.
Bare(g) ==
    [name |-> g.name, interests |-> g.interests, vibe |-> g.vibe,
     query_in |-> g.query_in, score |-> g.score,
     ranking_reasons |-> g.ranking_reasons]

\* C17: within a batch a gift that scores at least as much as another has
\* at least its confidence, the confidences of the returned list never
\* rise from one place to the next, and attaching them leaves every gift
\* at the place the sort gave it.
C17_RankOrderKept ==
    call.fn = "rank" =>
        LET ranked == call.ranked
            returned == call.returned
        IN  /\ \A i, j \in 1..Len(ranked) :
                 ranked[i].score >= ranked[j].score
                     => ranked[i].confidence >= ranked[j].confidence
            /\ \A i, j \in 1..Len(returned) :
                 i < j => returned[i].confidence >= returned[j].confidence
            /\ Len(ranked) = Len(call.sorted)
            /\ \A i \in 1..Len(ranked) : Bare(ranked[i]) = Bare(call.sorted[i])

\* C17 witness: three gifts with three different scores are returned with
\* falling confidences 0.95, then something between, then 0.55.
C17_Witness ==
    /\ call.fn = "rank"
    /\ Len(call.returned) = 3
    /\ call.returned[1].score > call.returned[2].score
    /\ call.returned[2].score > call.returned[3].score
    /\ call.returned[1].confidence = 95
    /\ call.returned[2].confidence < 95
    /\ call.returned[2].confidence > 55
    /\ call.returned[3].confidence = 55

\* The place of the gift at position i of the retrieval order once the
\* batch is ordered by score, highest first, equal scores in retrieval
\* order.
PlaceOf(scored, i) ==
    1 + Cardinality({j \in 1..Len(scored) : scored[j].score > scored[i].score})
      + Cardinality({j \in 1..(i - 1) : scored[j].score = scored[i].score})

\* C18: the returned list has min(k, n) gifts, and its p-th gift is the
\* scored gift whose place by score, ties in retrieval order, is p; so it
\* never has more than k gifts and never leaves out a gift that outscores
\* one it returns.
C18_TopKStable ==
    call.fn = "rank" =>
        LET scored == call.scored
            returned == call.returned
            n == Len(scored)
        IN  /\ Len(returned) = (IF call.k < n THEN call.k ELSE n)
            /\ Len(returned) <= call.k
            /\ \A i \in 1..n :
                 PlaceOf(scored, i) <= Len(returned)
                     => Bare(returned[PlaceOf(scored, i)]) = Bare(scored[i])
            /\ \A i \in 1..n :
                 (\E p \in 1..Len(returned) :
                      returned[p].score < scored[i].score)
                     => \E q \in 1..Len(returned) :
                            Bare(returned[q]) = Bare(scored[i])

\* C18 witness: of three gifts the first two retrieved tie at the top under
\* different names; with k = 2 they are returned in retrieval order and
\* the third is cut.
C18_Witness ==
    /\ call.fn = "rank"
    /\ call.k = 2
    /\ Len(call.scored) = 3
    /\ call.scored[1].score = call.scored[2].score
    /\ call.scored[1].name # call.scored[2].name
    /\ call.scored[3].score < call.scored[1].score
    /\ Len(call.returned) = 2
    /\ call.returned[1].name = call.scored[1].name
    /\ call.returned[2].name = call.scored[2].name

\* What of a gift the ranking fixed: its name, confidence and reasons.
RankingOf(items) ==
    [i \in 1..Len(items) |->
        [name |-> items[i].name, confidence |-> items[i].confidence,
         ranking_reasons |-> items[i].ranking_reasons]]

\* C20: whatever the generator's text holds, the gifts of the result the
\* explanation step hands back are the ranked gifts it was given, in the
\* same order, each with the confidence and the ranking_reasons it came
\* with.
C20_ExplanationKeepsRanking ==
    (call.fn = "explain" /\ ~call.result.raised)
        => RankingOf(call.result.value[1].gifts) = RankingOf(call.gifts)

\* --------------------------------------------------------------------- C21
\* The calls of update_inferred("u1", category, value) that returned True,
\* over all callers.
SucceededCalls(category, value) ==
    LET n(w) == Cardinality({i \in 1..Len(req[w].succeeded) :
                                req[w].succeeded[i] = <<category, value>>})
    IN  n(1) + n(2)

\* inferred[...].get(value, 0) on what get_inferred answers.
ReportedWeight(category, value) ==
    LET inferred == get_inferred(tables.inferred_preferences, "u1", FALSE)
        items == IF category = "interest" THEN inferred.interests
                 ELSE inferred.vibe
        at == {i \in 1..Len(items) : items[i].key = value}
    IN  IF at = {} THEN 0 ELSE items[CHOOSE i \in at : TRUE].weight

\* C21: inferred weights count events exactly: once no call of
\* update_inferred is in progress, get_inferred reports for every category
\* and value the number of calls for it that succeeded, whether the calls
\* ran one after the other or interleaved.
C21_WeightCountsEvents ==
    (\A w \in Workers : req[w].pc = "idle")
        => \A category \in Categories, value \in Tags :
              ReportedWeight(category, value)
                  = SucceededCalls(category, value)

\* --------------------------------------------------------------------- C22
\* C22: preference round-trip: when a save_preferences(u, I, V) has
\* returned True, no other save for u ran during it and none has started
\* since, get_preferences(u) answers exactly interests I and vibe V,
\* whatever saves came before (one after the other or interleaved, by the
\* insert or the update path); nothing of the earlier values is kept.
C22_PreferenceRoundTrip ==
    \A u \in Users :
        (call[u].fn = "save_preferences" /\ call[u].alone)
            => get_preferences(tables.user_preferences, u, FALSE)
                   = Some([interests |-> call[u].args.interests,
                           vibe |-> call[u].args.vibe])

\* Two interleaved saves for u1 have left two rows, a later save that ran
\* alone has replaced other values, and the read answers the later ones.
C22_Witness ==
    /\ call["u1"].fn = "save_preferences"
    /\ call["u1"].alone
    /\ Cardinality({i \in 1..Len(tables.user_preferences) :
                       tables.user_preferences[i].user_id = "u1"}) = 2
    /\ \E w \in Workers : \E i \in 1..Len(req[w].succeeded) :
          /\ req[w].succeeded[i].user_id = "u1"
          /\ req[w].succeeded[i].interests # call["u1"].args.interests
    /\ get_preferences(tables.user_preferences, "u1", FALSE)
           = Some([interests |-> call["u1"].args.interests,
                   vibe |-> call["u1"].args.vibe])

\* --------------------------------------------------------------------- C27
\* The rows of `table` that are not older than `cutoff`, in order.
NotOlderThan(table, cutoff) ==
    LET keep == {i \in 1..Len(table) : table[i].timestamp >= cutoff}
        place(i) == Cardinality({j \in keep : j <= i})
    IN  [n \in 1..Cardinality(keep) |->
            table[CHOOSE i \in keep : place(i) = n]]

\* C27: usage records are append-only: a step that is not a cleanup leaves
\* every existing record where and as it was, adding at most one record at
\* the end; a cleanup that went through removes exactly the records whose
\* timestamp is older than now - days and leaves the others unchanged; a
\* cleanup that failed removes nothing.
C27_AppendOnly ==
    [][IF call'.fn = "cleanup_old_token_usage"
       THEN token_usage' =
                IF call'.failed THEN token_usage
                ELSE NotOlderThan(token_usage, now - call'.days * DayTicks)
       ELSE /\ Len(token_usage') \in {Len(token_usage), Len(token_usage) + 1}
            /\ \A i \in 1..Len(token_usage) : token_usage'[i] = token_usage[i]
      ]_vars

\* A cleanup with days = 1 has removed a record and kept a younger one.
C27_Witness ==
    /\ call.fn = "cleanup_old_token_usage"
    /\ call.days = 1
    /\ call.count = 1
    /\ Len(token_usage) = 1

\* --------------------------------------------------------------------- C30
\* What check_rate_limit answers for `ip` on `table` when both of its reads
\* succeed at `utcnow`.
GateAnswer(table, ip, utcnow) ==
    check_rate_limit(get_hourly_token_usage(table, ip, utcnow, FALSE),
                     table, ip, utcnow, FALSE)

\* A cleanup step changes no client's gate answer.
CleanupKeepsAnswers ==
    \A ip \in IPs :
        GateAnswer(token_usage', ip, now) = GateAnswer(token_usage, ip, now)

\* C30 as claimed: whatever the days argument, a cleanup removes no record
\* the gate still counts, so that no client's admission, units used or
\* reset time differs after it.
C30_CleanupNeverChangesGate ==
    [][call'.fn = "cleanup_old_token_usage" => CleanupKeepsAnswers]_vars

\* C30 amended: a cleanup whose retention is at least the window
\* (days * 86400 s >= W) removes no record the gate still counts, so that
\* no client's admission, units used or reset time differs after it.
C30_CleanupBeyondWindow ==
    [][(call'.fn = "cleanup_old_token_usage"
           /\ call'.days * DayTicks >= Window)
          => /\ CleanupKeepsAnswers
             /\ \A ip \in IPs :
                   SelectWindow(token_usage', ip, now - Window)
                       = SelectWindow(token_usage, ip, now - Window)
      ]_vars

\* A cleanup with a retention of at least the window has removed a record
\* of a client while that client still has a record the gate counts.
C30_Witness ==
    /\ call.fn = "cleanup_old_token_usage"
    /\ call.days * DayTicks >= Window
    /\ call.count > 0
    /\ \E ip \in IPs : GateAnswer(token_usage, ip, now).tokens_used > 0

\* --------------------------------------------------------------------- C23
\* The smallest timestamp among `rows`.
EarliestStamp(rows) ==
    CHOOSE t \in {rows[i].timestamp : i \in 1..Len(rows)} :
        \A i \in 1..Len(rows) : t <= rows[i].timestamp

\* C23: the reset time a check returns is recorded_at + W of the client's
\* oldest record with recorded_at >= now - W when the oldest-record read
\* answers and such a record exists, and now + W otherwise, the fail-open
\* path included (now being the time of that read); it is never earlier
\* than the time the check began.
C23_ResetTime ==
    req.pc = "returned"
        => /\ req.result[1].reset_time =
                  IF ~req.oldest_fault /\ req.seen # <<>>
                  THEN EarliestStamp(req.seen) + Window
                  ELSE req.t_oldest + Window
           /\ req.result[1].reset_time >= req.t_sum

\* A check has returned the reset time of the older of two records in the
\* window, some time after the older one was written.
C23_Witness ==
    /\ req.pc = "returned"
    /\ ~req.oldest_fault
    /\ Len(req.seen) = 2
    /\ req.seen[1].timestamp < req.seen[2].timestamp
    /\ req.result[1].reset_time = req.seen[1].timestamp + Window
    /\ req.result[1].reset_time < req.t_oldest + Window

\* --------------------------------------------------------------------- C29
\* C29: the two reads of one check are consistent: the record the reset
\* time was taken from is one of the records the sum counted, and the
\* units used are positive exactly when the reset time was taken from a
\* record.
C29_ReadsConsistent ==
    req.pc = "returned"
        => /\ req.oldest # <<>>
                 => \E i \in 1..Len(req.counted) :
                        req.counted[i] = req.oldest[1]
           /\ (req.result[1].tokens_used > 0) <=> (req.oldest # <<>>)

\* --------------------------------------------------------------------- C24
\* `ip` is the first hop of the header value `s`: it stands in s before any
\* comma, with nothing but blanks before it and nothing but blanks between
\* it and the first comma or the end, and has no blank at either end.
IsFirstHop(ip, s) ==
    /\ \A i \in 1..Len(ip) : ip[i] # ","
    /\ ip # <<>> => ip[1] # " " /\ ip[Len(ip)] # " "
    /\ \E a \in 0..Len(s), b \in 0..Len(s) :
          /\ a + Len(ip) + b <= Len(s)
          /\ \A i \in 1..a : s[i] = " "
          /\ SubSeq(s, a + 1, a + Len(ip)) = ip
          /\ \A i \in (a + Len(ip) + 1)..(a + Len(ip) + b) : s[i] = " "
          /\ (a + Len(ip) + b = Len(s) \/ s[a + Len(ip) + b + 1] = ",")

\* `ip` is the header value `s` without the blanks around it.
IsTrimmed(ip, s) ==
    /\ ip # <<>> => ip[1] # " " /\ ip[Len(ip)] # " "
    /\ \E a \in 0..Len(s) :
          /\ a + Len(ip) <= Len(s)
          /\ \A i \in 1..a : s[i] = " "
          /\ SubSeq(s, a + 1, a + Len(ip)) = ip
          /\ \A i \in (a + Len(ip) + 1)..Len(s) : s[i] = " "

\* C24 as claimed: the client identity is the first hop of X-Forwarded-For
\* if that header is present, else X-Real-IP if present, else the peer
\* address ("unknown" without a peer); a lower-priority signal is used only
\* when every higher-priority one is absent.
C24_IdentityByPresence ==
    call.fn = "get_client_ip"
        => IF call.forwarded_for # None
           THEN IsFirstHop(call.ip, call.forwarded_for[1])
           ELSE IF call.real_ip # None
           THEN IsTrimmed(call.ip, call.real_ip[1])
           ELSE IF call.client # None THEN call.ip = call.client[1]
           ELSE call.ip = <<"u", "n", "k", "n", "o", "w", "n">>

\* C24 amended: the client identity is the first hop of X-Forwarded-For if
\* that header is present and not empty, else X-Real-IP if present and not
\* empty, else the peer address ("unknown" without a peer); it is one
\* signal, never a combination, and a lower-priority signal is used only
\* when every higher-priority one is absent or empty.
C24_IdentityByPriority ==
    call.fn = "get_client_ip"
        => IF call.forwarded_for # None /\ call.forwarded_for[1] # <<>>
           THEN IsFirstHop(call.ip, call.forwarded_for[1])
           ELSE IF call.real_ip # None /\ call.real_ip[1] # <<>>
           THEN IsTrimmed(call.ip, call.real_ip[1])
           ELSE IF call.client # None THEN call.ip = call.client[1]
           ELSE call.ip = <<"u", "n", "k", "n", "o", "w", "n">>

\* A request with two hops in X-Forwarded-For, an X-Real-IP and a peer is
\* identified by the first hop, blanks removed.
C24_Witness ==
    /\ call.fn = "get_client_ip"
    /\ call.forwarded_for = Some(<<" ", "x", ",">>)
    /\ call.real_ip = Some(<<"y">>)
    /\ call.client # None
    /\ call.ip = <<"x">>

\* --------------------------------------------------------------------- C25
\* A normalized tag: not empty, no upper-case letter, no blank at either end.
CleanTag(tag) ==
    /\ tag # <<>>
    /\ \A i \in 1..Len(tag) : tag[i] # "A"
    /\ tag[1] # " " /\ tag[Len(tag)] # " "

NoDuplicates(list) ==
    \A i, j \in 1..Len(list) : list[i] = list[j] => i = j

\* C25: a list of tags and the comma-joined string of the same tags
\* normalize to the same collection of lower-cased, trimmed, non-empty tags
\* without duplicates; a value that is neither list nor string normalizes
\* to the empty collection.
C25_NormalizeAnyShape ==
    call.fn = "normalize_list_field"
        => /\ Range(call.from_list) = Range(call.from_string)
           /\ \A tag \in Range(call.from_list) \cup Range(call.from_string) :
                 CleanTag(tag)
           /\ NoDuplicates(call.from_list)
           /\ NoDuplicates(call.from_string)
           /\ call.shape = "other" => call.from_list = <<>>

\* --------------------------------------------------------------------- C26
\* C26: the relevance component is monotone in query hits: a gift scores at
\* least as much as every gift whose matching fields (name, description,
\* categories, interests, occasions) are among its own; the component is 0
\* when no field matches and is never negative.
C26_RelevanceMonotone ==
    call.fn = "semantic_score"
        => /\ \A other \in TextGifts :
                 QueryIn(other, call.query) \subseteq call.query_in
                    => semantic_score_from_query_match(
                           QueryIn(other, call.query))
                         <= call.semantic_score
           /\ call.query_in = {} => call.semantic_score = 0
           /\ call.semantic_score >= 0

\* A gift matching in its name and its categories only scores more than
\* nothing, and some gift matches in fewer fields.
C26_Witness ==
    /\ call.fn = "semantic_score"
    /\ call.query_in = {"name", "categories"}
    /\ call.semantic_score > 0
    /\ \E other \in TextGifts :
          /\ QueryIn(other, call.query) = {"categories"}
          /\ semantic_score_from_query_match(QueryIn(other, call.query))
                 < call.semantic_score

====
